---- MODULE Spec2Model ----
(***************************************************************************)
(* Smart-crop detection engine (localSmartCrop): grayscale, blur, Sobel    *)
(* edge mask, contours, bounding boxes, box merging and candidate          *)
(* selection; then the enhancement engine (enhanceImage), predict, the     *)
(* batch handlers of App, and the crop editor (useCropper) with the crop   *)
(* history of App.  Pixel buffers are functions on 0..width*height-1 in    *)
(* row-major order; boxes are records [x, y, w, h].                        *)
(*                                                                         *)
(* The merge margin 0.05 * min(imgWidth, imgHeight) is kept exactly as a   *)
(* number of twentieths (MarginDen), and the comparisons of shouldMerge    *)
(* are made on coordinates scaled by MarginDen.  The area tests            *)
(* area > 0.015 * imageArea and area / imageArea > 0.95 are likewise made  *)
(* on cross-multiplied integers.                                           *)
(***************************************************************************)
EXTENDS Integers, Sequences, FiniteSets, TLC

VARIABLES pc, width, height, imageData, scene, grayData, blurredData,
          thresholdIdx, allContours, boxes, n0, merges, passes, bestIdx,
          result, firstOut, r1, r2, margin, smAB, smBA,
          inputBoxes, edgeMask, ctxFailed, canvasWidth, canvasHeight,
          dataLength, pixelData, sharpenedData, blob, crop, items,
          isBatchProcessing, loopQueue, zip, downloaded, scale, zoom, dragging

vars == <<pc, width, height, imageData, scene, grayData, blurredData,
          thresholdIdx, allContours, boxes, n0, merges, passes, bestIdx,
          result, firstOut, r1, r2, margin, smAB, smBA,
          inputBoxes, edgeMask, ctxFailed, canvasWidth, canvasHeight,
          dataLength, pixelData, sharpenedData, blob, crop, items,
          isBatchProcessing, loopQueue, zip, downloaded, scale, zoom, dragging>>

\* The variables of the detection engine other than pc, of the enhancement
\* engine, and of the application (predict and the batch handlers).
detectVars == <<width, height, imageData, scene, grayData, blurredData,
                thresholdIdx, allContours, boxes, n0, merges, passes, bestIdx,
                result, firstOut, r1, r2, margin, smAB, smBA,
                inputBoxes, edgeMask>>

enhanceVars == <<canvasWidth, canvasHeight, dataLength, pixelData, sharpenedData,
                 blob>>

appVars == <<crop, items, isBatchProcessing, loopQueue, zip, downloaded>>

\* The state of the useCropper hook.
cropperVars == <<scale, zoom, dragging>>

\* What the actions of suggestCropWithEdgeDetection never touch.
otherVars == <<inputBoxes, edgeMask, ctxFailed, canvasWidth, canvasHeight,
               dataLength, pixelData, sharpenedData, blob, crop, items,
               isBatchProcessing, loopQueue, zip, downloaded, scale, zoom, dragging>>

(***************************************************************************)
(* Bounds of the model.                                                    *)
(***************************************************************************)
MaxW == 6
MaxH == 5
MaxCoord == 3
MaxSide == 1
MaxBoxes == 3
MaxMargin == 30
MaxSelBoxes == 3
MaxMaskW == 4
MaxMaskH == 2
MaxEnhW == 2
MaxEnhH == 2
MaxPad == 3
MaxItems == 3
MaxGrayW == 2
MaxLevel == 2
MaxPoolW == 13
MaxPoolH == 7
MaxPoolGap == 5
MaxDragW == 12
MaxDragH == 11
MaxDrag == 2
BigDrag == 50
MaxDragHistory == 2
MaxHistory == 3

(***************************************************************************)
(* Program constants.                                                      *)
(***************************************************************************)
KernelWeight == 16
LowThreshold == 30
HighThreshold == 70
MarginDen == 20
MinAreaNum == 15
MinAreaDen == 1000
MaxAreaNum == 95
MaxAreaDen == 100
UpscaleThreshold == 512
UpscaleFactor == 2
ContrastNum == 105
ContrastDen == 100
Brightness == 10
PaddingDen == 50
MinCropSide == 10

ThresholdsSwapped == <<HighThreshold, LowThreshold>>

Thresholds == <<LowThreshold, HighThreshold>>
GaussKernel == <<1, 2, 1, 2, 4, 2, 1, 2, 1>>
SobelX == <<-1, 0, 1, -2, 0, 2, -1, 0, 1>>
SobelY == <<-1, -2, -1, 0, 0, 0, 1, 2, 1>>

Min(a, b) == IF a < b THEN a ELSE b
Max(a, b) == IF a > b THEN a ELSE b
SetMin(S) == CHOOSE m \in S : \A s \in S : m <= s
SetMax(S) == CHOOSE m \in S : \A s \in S : m >= s

ZeroBox == [x |-> 0, y |-> 0, w |-> 0, h |-> 0]
Area(b) == b.w * b.h

(***************************************************************************)
(* A store into a Uint8ClampedArray of the quotient num / den (den > 0):   *)
(* round to nearest, ties to even, clamped to 0..255.                      *)
(***************************************************************************)
ToUint8Floor(num, den) ==
    IF num <= 0 THEN 0
    ELSE IF num \div den > 255 THEN 255 ELSE num \div den

ToUint8Clamp(num, den) ==
    IF num <= 0 THEN 0
    ELSE LET q == num \div den
             r == num % den
             rounded == IF 2 * r < den THEN q
                        ELSE IF 2 * r > den THEN q + 1
                        ELSE IF q % 2 = 0 THEN q ELSE q + 1
         IN  IF rounded > 255 THEN 255 ELSE rounded

(***************************************************************************)
(* toGrayscale: data is a function pixel -> <<r, g, b, a>>.                *)
(***************************************************************************)
ToGrayscale(data) ==
    [p \in DOMAIN data |-> ToUint8Clamp(data[p][1] + data[p][2] + data[p][3], 3)]

Interior(x, y, w, h) == x >= 1 /\ x < w - 1 /\ y >= 1 /\ y < h - 1

\* One tap of a 3x3 neighbourhood, k = (ky + 1) * 3 + (kx + 1).
Tap(data, w, x, y, k) == data[(y + (k \div 3) - 1) * w + (x + (k % 3) - 1)]

Conv3(data, w, x, y, kernel) ==
    LET t(k) == Tap(data, w, x, y, k) * kernel[k + 1]
    IN  t(0) + t(1) + t(2) + t(3) + t(4) + t(5) + t(6) + t(7) + t(8)

GaussianBlurKeepBorder(data, w, h) ==
    [p \in 0 .. (w * h - 1) |->
        IF Interior(p % w, p \div w, w, h)
        THEN ToUint8Clamp(Conv3(data, w, p % w, p \div w, GaussKernel), KernelWeight)
        ELSE data[p]]

(***************************************************************************)
(* gaussianBlur: border rows and columns stay 0.                           *)
(***************************************************************************)
GaussianBlur(data, w, h) ==
    [p \in 0 .. (w * h - 1) |->
        IF Interior(p % w, p \div w, w, h)
        THEN ToUint8Clamp(Conv3(data, w, p % w, p \div w, GaussKernel), KernelWeight)
        ELSE 0]

\* Squared gradient magnitude gx*gx + gy*gy at an interior pixel.
Magnitude2(data, w, x, y) ==
    LET gx == Conv3(data, w, x, y, SobelX)
        gy == Conv3(data, w, x, y, SobelY)
    IN  gx * gx + gy * gy

\* Math.sqrt(gx*gx + gy*gy) > threshold, on integers.
ExceedsFlipped(mag2, threshold) == mag2 < threshold * threshold
Exceeds(mag2, threshold) == mag2 > threshold * threshold

(***************************************************************************)
(* cannyEdgeDetector: 255 where the Sobel magnitude exceeds the threshold. *)
(***************************************************************************)
CannyEdgeDetector(data, w, h, threshold) ==
    [p \in 0 .. (w * h - 1) |->
        IF Interior(p % w, p \div w, w, h)
           /\ Exceeds(Magnitude2(data, w, p % w, p \div w), threshold)
        THEN 255 ELSE 0]

(***************************************************************************)
(* findContours: row-major scan, breadth-first flood fill over the eight   *)
(* neighbours, in the order dy = -1..1, dx = -1..1.                        *)
(***************************************************************************)
OffsetsFour == << <<0, -1>>, <<-1, 0>>, <<1, 0>>, <<0, 1>> >>

Offsets == << <<-1, -1>>, <<0, -1>>, <<1, -1>>, <<-1, 0>>, <<1, 0>>,
              <<-1, 1>>, <<0, 1>>, <<1, 1>> >>

RECURSIVE VisitNeighbours(_, _, _, _, _, _, _)
VisitNeighbours(data, w, h, point, k, queue, visited) ==
    IF k > Len(Offsets) THEN [queue |-> queue, visited |-> visited]
    ELSE LET nx == point.x + Offsets[k][1]
             ny == point.y + Offsets[k][2]
             nIndex == ny * w + nx
             ok == nx >= 0 /\ nx < w /\ ny >= 0 /\ ny < h
                   /\ data[nIndex] = 255 /\ nIndex \notin visited
         IN  VisitNeighbours(data, w, h, point, k + 1,
                 IF ok THEN Append(queue, [x |-> nx, y |-> ny]) ELSE queue,
                 IF ok THEN visited \cup {nIndex} ELSE visited)

RECURSIVE FloodFill(_, _, _, _, _, _)
FloodFill(data, w, h, queue, visited, contour) ==
    IF queue = << >> THEN [contour |-> contour, visited |-> visited]
    ELSE LET point == Head(queue)
             nb == VisitNeighbours(data, w, h, point, 1, Tail(queue), visited)
         IN  FloodFill(data, w, h, nb.queue, nb.visited, Append(contour, point))

RECURSIVE ScanPixels(_, _, _, _, _, _)
ScanPixels(data, w, h, index, visited, contours) ==
    IF index >= w * h THEN contours
    ELSE IF data[index] = 255 /\ index \notin visited
         THEN LET fill == FloodFill(data, w, h,
                              << [x |-> index % w, y |-> index \div w] >>,
                              visited \cup {index}, << >>)
              IN  ScanPixels(data, w, h, index + 1, fill.visited,
                             Append(contours, fill.contour))
         ELSE ScanPixels(data, w, h, index + 1, visited, contours)

FindContours(data, w, h) == ScanPixels(data, w, h, 0, {}, << >>)

(***************************************************************************)
(* getBoundingRect.                                                        *)
(***************************************************************************)
GetBoundingRectSwapped(contour) ==
    IF Len(contour) = 0 THEN ZeroBox
    ELSE LET xs == {contour[i].x : i \in 1 .. Len(contour)}
             ys == {contour[i].y : i \in 1 .. Len(contour)}
         IN  [x |-> SetMax(xs), y |-> SetMax(ys),
              w |-> SetMax(xs) - SetMin(xs), h |-> SetMax(ys) - SetMin(ys)]

GetBoundingRect(contour) ==
    IF Len(contour) = 0 THEN ZeroBox
    ELSE LET xs == {contour[i].x : i \in 1 .. Len(contour)}
             ys == {contour[i].y : i \in 1 .. Len(contour)}
         IN  [x |-> SetMin(xs), y |-> SetMin(ys),
              w |-> SetMax(xs) - SetMin(xs), h |-> SetMax(ys) - SetMin(ys)]

(***************************************************************************)
(* mergeRects, shouldMerge.  margin is in units of 1 / MarginDen.          *)
(***************************************************************************)
MergeRectsFirst(a, b) == a

MergeRects(a, b) ==
    LET x == Min(a.x, b.x)
        y == Min(a.y, b.y)
    IN  [x |-> x, y |-> y,
         w |-> Max(a.x + a.w, b.x + b.w) - x,
         h |-> Max(a.y + a.h, b.y + b.h) - y]

ShouldMergeOneSided(a, b, m) ==
    LET e == [x |-> MarginDen * a.x - m, y |-> MarginDen * a.y - m,
              w |-> MarginDen * a.w + m, h |-> MarginDen * a.h + m]
    IN  /\ e.x < MarginDen * (b.x + b.w)
        /\ e.x + e.w > MarginDen * b.x
        /\ e.y < MarginDen * (b.y + b.h)
        /\ e.y + e.h > MarginDen * b.y

ShouldMergeTouching(a, b, m) ==
    LET e == [x |-> MarginDen * a.x - m, y |-> MarginDen * a.y - m,
              w |-> MarginDen * a.w + 2 * m, h |-> MarginDen * a.h + 2 * m]
    IN  /\ e.x <= MarginDen * (b.x + b.w)
        /\ e.x + e.w >= MarginDen * b.x
        /\ e.y <= MarginDen * (b.y + b.h)
        /\ e.y + e.h >= MarginDen * b.y

ShouldMerge(a, b, m) ==
    LET expandedR1 == [x |-> MarginDen * a.x - m, y |-> MarginDen * a.y - m,
                       w |-> MarginDen * a.w + 2 * m, h |-> MarginDen * a.h + 2 * m]
    IN  /\ expandedR1.x < MarginDen * (b.x + b.w)
        /\ expandedR1.x + expandedR1.w > MarginDen * b.x
        /\ expandedR1.y < MarginDen * (b.y + b.h)
        /\ expandedR1.y + expandedR1.h > MarginDen * b.y

\* margin of mergeNearbyBoxes, in units of 1 / MarginDen.
MergeMargin(imgWidth, imgHeight) == Min(imgWidth, imgHeight)

(***************************************************************************)
(* One pass of the while loop of mergeNearbyBoxes: the first pair (i, j),  *)
(* i < j, in scan order that shouldMerge accepts, or none.                 *)
(***************************************************************************)
MergeablePairs(bs, m) ==
    {p \in (1 .. Len(bs)) \X (1 .. Len(bs)) :
        p[1] < p[2] /\ ShouldMerge(bs[p[1]], bs[p[2]], m)}

FirstPair(bs, m) ==
    LET ps == MergeablePairs(bs, m)
        i == SetMin({p[1] : p \in ps})
        j == SetMin({p[2] : p \in {q \in ps : q[1] = i}})
    IN  <<i, j>>

\* boxes[i] = mergeRects(boxes[i], boxes[j]); boxes.splice(j, 1)
MergeAtNoSplice(bs, i, j) ==
    [k \in 1 .. Len(bs) |-> IF k = i THEN MergeRects(bs[i], bs[j]) ELSE bs[k]]

MergeAt(bs, i, j) ==
    [k \in 1 .. (Len(bs) - 1) |->
        IF k = i THEN MergeRects(bs[i], bs[j])
        ELSE IF k < j THEN bs[k] ELSE bs[k + 1]]

(***************************************************************************)
(* Steps of suggestCropWithEdgeDetection after the contours are pooled.    *)
(***************************************************************************)
\* box.w * box.h > (width * height) * 0.015
KeepsAll(b, w, h) == TRUE
Keeps(b, w, h) == MinAreaDen * Area(b) > MinAreaNum * (w * h)

FilterValid(bs, w, h) == SelectSeq(bs, LAMBDA b : Keeps(b, w, h))

MapBoundingRect(contours) ==
    [k \in 1 .. Len(contours) |-> GetBoundingRect(contours[k])]

\* reduce((largest, current) => current.area > largest.area ? current : largest)
RECURSIVE ReduceLast(_, _, _)
ReduceLast(bs, k, largest) ==
    IF k > Len(bs) THEN largest
    ELSE ReduceLast(bs, k + 1,
                    IF Area(bs[k]) >= Area(bs[largest]) THEN k ELSE largest)

RECURSIVE ReduceFrom(_, _, _)
ReduceFrom(bs, k, largest) ==
    IF k > Len(bs) THEN largest
    ELSE ReduceFrom(bs, k + 1,
                    IF Area(bs[k]) > Area(bs[largest]) THEN k ELSE largest)

BestIndexLast(bs) == ReduceLast(bs, 2, 1)
BestIndex(bs) == ReduceFrom(bs, 2, 1)

\* bestBoxArea / imageArea > 0.95
TooLargeInclusive(b, w, h) == MaxAreaDen * Area(b) >= MaxAreaNum * (w * h)
TooLarge(b, w, h) == MaxAreaDen * Area(b) > MaxAreaNum * (w * h)

Pending == [kind |-> "pending", box |-> ZeroBox]
Null == [kind |-> "null", box |-> ZeroBox]
Box(b) == [kind |-> "box", box |-> b]

(***************************************************************************)
(* Input images: a uniform background with one solid axis-aligned          *)
(* rectangle.  Colours are <<r, g, b, a>>.                                 *)
(***************************************************************************)
Black == <<0, 0, 0, 255>>
White == <<255, 255, 255, 255>>
Dim == <<4, 5, 6, 0>>
Mid == <<13, 13, 12, 255>>

ColourPairs == {<<Black, White>>, <<White, Black>>, <<Black, Dim>>,
                <<Black, Mid>>, <<Mid, White>>}

NoScene == [bg |-> Black, fg |-> Black, x |-> 0, y |-> 0, w |-> 0, h |-> 0]

InRect(s, x, y) == x >= s.x /\ x < s.x + s.w /\ y >= s.y /\ y < s.y + s.h

Render(s, w, h) ==
    [p \in 0 .. (w * h - 1) |-> IF InRect(s, p % w, p \div w) THEN s.fg ELSE s.bg]

Scenes(w, h) ==
    {[bg |-> c[1], fg |-> c[2], x |-> x, y |-> y, w |-> rw, h |-> rh] :
        c \in ColourPairs, x \in 0 .. (w - 1), y \in 0 .. (h - 1),
        rw \in 1 .. w, rh \in 1 .. h}

NoGeom ==
    /\ r1 = ZeroBox /\ r2 = ZeroBox /\ margin = 0
    /\ smAB = FALSE /\ smBA = FALSE

\* enhanceImage has not been called.
NoBlob == [kind |-> "pending", width |-> 0, height |-> 0]

NoEnhance ==
    /\ canvasWidth = 0 /\ canvasHeight = 0 /\ dataLength = 0
    /\ pixelData = << >> /\ sharpenedData = << >>
    /\ blob = NoBlob

\* The list a batch handler loops over (ids are positions in items) and the
\* position of its for loop.
NoLoop == [ids |-> << >>, next |-> 1]

\* No item has been added and no handler of the application is running.
NoApp ==
    /\ crop = Pending
    /\ items = << >> /\ isBatchProcessing = FALSE
    /\ loopQueue = NoLoop /\ zip = {} /\ downloaded = FALSE

\* No handle of the crop box is being dragged.
NoDragging == [handle |-> "none", startX |-> 0, startY |-> 0, startCrop |-> ZeroBox]

NoCropper == scale = 1 /\ zoom = 1 /\ dragging = NoDragging

NoOther ==
    /\ inputBoxes = << >> /\ edgeMask = << >>
    /\ ctxFailed = FALSE /\ NoCropper
    /\ NoEnhance
    /\ NoApp

(***************************************************************************)
(* suggestCropWithEdgeDetection on an image.                               *)
(***************************************************************************)
Init ==
    /\ pc = "start"
    /\ width \in 1 .. MaxW
    /\ height \in 1 .. MaxH
    /\ scene \in {s \in Scenes(width, height) :
                     s.x + s.w <= width /\ s.y + s.h <= height}
    /\ imageData = Render(scene, width, height)
    /\ grayData = << >> /\ blurredData = << >>
    /\ thresholdIdx = 1
    /\ allContours = << >>
    /\ boxes = << >>
    /\ n0 = 0 /\ merges = 0 /\ passes = 0
    /\ bestIdx = 0
    /\ result = Pending
    /\ firstOut = << >>
    /\ NoGeom
    /\ NoOther

Grayscale ==
    /\ pc = "start"
    /\ grayData' = ToGrayscale(imageData)
    /\ pc' = "blur"
    /\ UNCHANGED otherVars
    /\ UNCHANGED <<width, height, imageData, scene, blurredData, thresholdIdx,
                   allContours, boxes, n0, merges, passes, bestIdx, result,
                   firstOut, r1, r2, margin, smAB, smBA>>

Blur ==
    /\ pc = "blur"
    /\ blurredData' = GaussianBlur(grayData, width, height)
    /\ pc' = "detect"
    /\ UNCHANGED otherVars
    /\ UNCHANGED <<width, height, imageData, scene, grayData, thresholdIdx,
                   allContours, boxes, n0, merges, passes, bestIdx, result,
                   firstOut, r1, r2, margin, smAB, smBA>>

\* One iteration of: for (const threshold of thresholds)
Detect ==
    /\ pc = "detect"
    /\ thresholdIdx <= Len(Thresholds)
    /\ LET edgeData == CannyEdgeDetector(blurredData, width, height,
                                         Thresholds[thresholdIdx])
       IN  allContours' = allContours \o FindContours(edgeData, width, height)
    /\ thresholdIdx' = thresholdIdx + 1
    /\ UNCHANGED otherVars
    /\ UNCHANGED <<pc, width, height, imageData, scene, grayData, blurredData,
                   boxes, n0, merges, passes, bestIdx, result,
                   firstOut, r1, r2, margin, smAB, smBA>>

\* allContours.length === 0: return null
NoContours ==
    /\ pc = "detect"
    /\ thresholdIdx > Len(Thresholds)
    /\ allContours = << >>
    /\ result' = Null
    /\ pc' = "done"
    /\ UNCHANGED otherVars
    /\ UNCHANGED <<width, height, imageData, scene, grayData, blurredData,
                   thresholdIdx, allContours, boxes, n0, merges, passes,
                   bestIdx, firstOut, r1, r2, margin, smAB, smBA>>

\* boxes = allContours.map(getBoundingRect); validBoxes = boxes.filter(...)
BoundAndFilter ==
    /\ pc = "detect"
    /\ thresholdIdx > Len(Thresholds)
    /\ allContours # << >>
    /\ LET validBoxes == FilterValid(MapBoundingRect(allContours), width, height)
       IN  /\ boxes' = validBoxes
           /\ n0' = Len(validBoxes)
           /\ IF validBoxes = << >>
              THEN result' = Null /\ pc' = "done"
              ELSE result' = result /\ pc' = "merge"
    /\ UNCHANGED otherVars
    /\ UNCHANGED <<width, height, imageData, scene, grayData, blurredData,
                   thresholdIdx, allContours, merges, passes, bestIdx,
                   firstOut, r1, r2, margin, smAB, smBA>>

(***************************************************************************)
(* mergeNearbyBoxes, entered at pc = from and left at pc = to.             *)
(***************************************************************************)
\* if (boxes.length < 2) return boxes
MergeShort(from, to) ==
    /\ pc = from
    /\ Len(boxes) < 2
    /\ passes = 0
    /\ pc' = to
    /\ UNCHANGED <<boxes, merges, passes>>

MergePassOnce(from, to) ==
    /\ pc = from
    /\ (Len(boxes) >= 2 \/ passes > 0)
    /\ passes' = passes + 1
    /\ pc' = to
    /\ LET m == MergeMargin(width, height)
       IN  IF MergeablePairs(boxes, m) # {}
           THEN /\ boxes' = MergeAt(boxes, FirstPair(boxes, m)[1], FirstPair(boxes, m)[2])
                /\ merges' = merges + 1
           ELSE UNCHANGED <<boxes, merges>>

\* One pass of while (merged): merge the first mergeable pair and restart,
\* or find none and return.
MergePass(from, to) ==
    /\ pc = from
    /\ (Len(boxes) >= 2 \/ passes > 0)
    /\ passes' = passes + 1
    /\ LET m == MergeMargin(width, height)
       IN  IF MergeablePairs(boxes, m) # {}
           THEN /\ boxes' = MergeAt(boxes, FirstPair(boxes, m)[1], FirstPair(boxes, m)[2])
                /\ merges' = merges + 1
                /\ pc' = from
           ELSE /\ pc' = to
                /\ UNCHANGED <<boxes, merges>>

SuggestMergeShort ==
    /\ MergeShort("merge", "select")
    /\ UNCHANGED otherVars
    /\ UNCHANGED <<width, height, imageData, scene, grayData, blurredData,
                   thresholdIdx, allContours, n0, bestIdx, result,
                   firstOut, r1, r2, margin, smAB, smBA>>

SuggestMergePass ==
    /\ MergePass("merge", "select")
    /\ UNCHANGED otherVars
    /\ UNCHANGED <<width, height, imageData, scene, grayData, blurredData,
                   thresholdIdx, allContours, n0, bestIdx, result,
                   firstOut, r1, r2, margin, smAB, smBA>>

\* mergedBoxes.length === 0: return null; else reduce to the largest box
SelectBest ==
    /\ pc = "select"
    /\ IF boxes = << >>
       THEN result' = Null /\ pc' = "done" /\ bestIdx' = bestIdx
       ELSE bestIdx' = BestIndex(boxes) /\ pc' = "check" /\ result' = result
    /\ UNCHANGED otherVars
    /\ UNCHANGED <<width, height, imageData, scene, grayData, blurredData,
                   thresholdIdx, allContours, boxes, n0, merges, passes,
                   firstOut, r1, r2, margin, smAB, smBA>>

\* final sanity check on the best box
FinalCheck ==
    /\ pc = "check"
    /\ result' = IF TooLarge(boxes[bestIdx], width, height)
                 THEN Null ELSE Box(boxes[bestIdx])
    /\ pc' = "done"
    /\ UNCHANGED otherVars
    /\ UNCHANGED <<width, height, imageData, scene, grayData, blurredData,
                   thresholdIdx, allContours, boxes, n0, merges, passes,
                   bestIdx, firstOut, r1, r2, margin, smAB, smBA>>

Next ==
    \/ Grayscale
    \/ Blur
    \/ Detect
    \/ NoContours
    \/ BoundAndFilter
    \/ SuggestMergeShort
    \/ SuggestMergePass
    \/ SelectBest
    \/ FinalCheck

Spec == Init /\ [][Next]_vars

(***************************************************************************)
(* Properties of suggestCropWithEdgeDetection on an image (Spec).          *)
(***************************************************************************)
InteriorPixels ==
    {p \in 0 .. (width * height - 1) : Interior(p % width, p \div width, width, height)}

\* C1: whenever suggestCropWithEdgeDetection returns a box for an image of
\* positive width and height, the box has w > 0, h > 0, 0 <= x, 0 <= y,
\* x + w <= imageWidth and y + h <= imageHeight.
SuggestedBoxWithinImage ==
    (width > 0 /\ height > 0 /\ result.kind = "box") =>
        /\ result.box.w > 0 /\ result.box.h > 0
        /\ 0 <= result.box.x /\ 0 <= result.box.y
        /\ result.box.x + result.box.w <= width
        /\ result.box.y + result.box.h <= height

\* A box was returned that reaches the last interior column and row.
SuggestedBoxReturned ==
    /\ pc = "done" /\ result.kind = "box"
    /\ result.box.x + result.box.w = width - 2
    /\ result.box.y + result.box.h = height - 2

NoGradientExceeds ==
    \A p \in InteriorPixels :
        LET m2 == Magnitude2(blurredData, width, p % width, p \div width)
        IN  m2 <= LowThreshold * LowThreshold /\ m2 <= HighThreshold * HighThreshold

\* C2: an image in which no pixel's gradient magnitude exceeds 30 or 70
\* (both edge masks all zero, the pooled contour list empty) gets
\* no-suggestion (null).
NoEdgesNoSuggestion ==
    (pc = "done" /\ NoGradientExceeds) => (result = Null /\ allContours = << >>)

\* A finished run on an image with non-zero gradients, none above a threshold.
FaintImageDone ==
    /\ pc = "done" /\ NoGradientExceeds /\ result = Null
    /\ \E p \in InteriorPixels :
           Magnitude2(blurredData, width, p % width, p \div width) > 0

GrayOf(c) == ToUint8Clamp(c[1] + c[2] + c[3], 3)

\* The scene is one solid high-contrast rectangle on a uniform background
\* whose area is between 1.5% and 95% of the image area; only rectangles
\* clear of the border rows and columns that blur and edge detection skip
\* are taken.
SyntheticRectangle ==
    /\ scene.w > 0 /\ scene.h > 0
    /\ scene.x >= 1 /\ scene.y >= 1
    /\ scene.x + scene.w <= width - 1 /\ scene.y + scene.h <= height - 1
    /\ (GrayOf(scene.fg) - GrayOf(scene.bg) = 255 \/ GrayOf(scene.bg) - GrayOf(scene.fg) = 255)
    /\ MinAreaDen * (scene.w * scene.h) >= MinAreaNum * (width * height)
    /\ MaxAreaDen * (scene.w * scene.h) <= MaxAreaNum * (width * height)

Overlap(lo1, len1, lo2, len2) == Max(0, Min(lo1 + len1, lo2 + len2) - Max(lo1, lo2))
Intersection(a, b) == Overlap(a.x, a.w, b.x, b.w) * Overlap(a.y, a.h, b.y, b.h)
Union(a, b) == Area(a) + Area(b) - Intersection(a, b)

\* C3: for one solid high-contrast rectangle on a uniform background, of
\* area between 1.5% and 95% of the image, a box is returned whose
\* intersection-over-union with the rectangle is at least 0.8.
RectangleRecovered ==
    (pc = "done" /\ SyntheticRectangle) =>
        /\ result.kind = "box"
        /\ 10 * Intersection(result.box, scene) >= 8 * Union(result.box, scene)

\* C6: a one-point contour has a bounding rect with w = 0 and h = 0, the
\* area filter keeps a box iff w*h > 0.015 * imageWidth * imageHeight, and
\* no box with w = 0 or h = 0 reaches mergeNearbyBoxes or the selection.
DegenerateBoxesFiltered ==
    /\ \A k \in 1 .. Len(allContours) :
           Len(allContours[k]) = 1 =>
               (GetBoundingRect(allContours[k]).w = 0 /\ GetBoundingRect(allContours[k]).h = 0)
    /\ (pc \in {"merge", "select", "check"}) =>
           \A k \in 1 .. Len(boxes) : boxes[k].w > 0 /\ boxes[k].h > 0
    /\ (pc = "merge" /\ passes = 0 /\ width > 0 /\ height > 0) =>
           \A k \in 1 .. Len(allContours) :
               LET b == GetBoundingRect(allContours[k])
               IN  (\E i \in 1 .. Len(boxes) : boxes[i] = b)
                       <=> (1000 * (b.w * b.h) > 15 * (width * height))

\* A one-point contour was pooled and dropped by the area filter while
\* another box went on to mergeNearbyBoxes.
DegenerateContourDropped ==
    /\ pc = "merge" /\ passes = 0
    /\ \E k \in 1 .. Len(allContours) : Len(allContours[k]) = 1
    /\ Len(boxes) < Len(allContours)

(***************************************************************************)
(* The selection steps of suggestCropWithEdgeDetection on lists of valid   *)
(* boxes (SpecSelect): boxes lie on interior pixels and pass the area      *)
(* filter.                                                                 *)
(***************************************************************************)
SelectDims == {<<147, 150>>, <<144, 150>>, <<117, 120>>}

SelectBoxes(w, h) ==
    {b \in [x : {1, 1 + w \div 2}, y : {1, 1 + h \div 2},
            w : {w - 3, w \div 3}, h : {h - 3, h - 6, h \div 3}] :
        /\ b.x + b.w <= w - 2 /\ b.y + b.h <= h - 2
        /\ Keeps(b, w, h)}

SeqsUpTo(S, lo, hi) == UNION {[1 .. n -> S] : n \in lo .. hi}

NoImage ==
    /\ imageData = << >> /\ scene = NoScene
    /\ grayData = << >> /\ blurredData = << >>
    /\ thresholdIdx = Len(Thresholds) + 1
    /\ allContours = << >>

InitSelect ==
    /\ pc = "merge"
    /\ \E d \in SelectDims :
           /\ width = d[1] /\ height = d[2]
           /\ boxes \in SeqsUpTo(SelectBoxes(d[1], d[2]), 1, MaxSelBoxes)
    /\ n0 = Len(boxes) /\ merges = 0 /\ passes = 0
    /\ bestIdx = 0
    /\ result = Pending
    /\ firstOut = << >>
    /\ NoImage
    /\ NoGeom
    /\ NoOther

NextSelect ==
    \/ SuggestMergeShort
    \/ SuggestMergePass
    \/ SelectBest
    \/ FinalCheck

SpecSelect == InitSelect /\ [][NextSelect]_vars

\* C4: the selected box is rejected (null) iff its area is strictly greater
\* than 95% of the image area; a box of exactly 96% yields null and one of
\* exactly 94% is returned unchanged.
RejectedIffOver95Percent ==
    (pc = "done" /\ bestIdx > 0) =>
        LET b == boxes[bestIdx]
        IN  /\ (result = Null) <=> (100 * Area(b) > 95 * (width * height))
            /\ (result # Null) => (result = Box(b))
            /\ (100 * Area(b) = 96 * (width * height)) => (result = Null)
            /\ (100 * Area(b) = 94 * (width * height)) => (result = Box(b))

\* A selected box of exactly 96% of the image area was rejected.
Exactly96Rejected ==
    /\ pc = "done" /\ bestIdx > 0
    /\ 100 * Area(boxes[bestIdx]) = 96 * (width * height)
    /\ result = Null

\* C5: the chosen box has area >= that of every merged box, and among the
\* merged boxes of maximum area it is the first in list order.
FirstMaximalChosen ==
    (pc \in {"check", "done"} /\ bestIdx > 0) =>
        /\ \A k \in 1 .. Len(boxes) : Area(boxes[k]) <= Area(boxes[bestIdx])
        /\ \A k \in 1 .. (bestIdx - 1) : Area(boxes[k]) < Area(boxes[bestIdx])

\* Several merged boxes share the maximum area and the first was chosen.
TieBrokenByOrder ==
    /\ pc = "check"
    /\ \E k \in (bestIdx + 1) .. Len(boxes) : Area(boxes[k]) = Area(boxes[bestIdx])

(***************************************************************************)
(* shouldMerge on pairs of boxes and margins (SpecGeom).                   *)
(***************************************************************************)
GeomBoxes == [x : 0 .. MaxCoord, y : 0 .. 1, w : 0 .. MaxSide, h : 0 .. 1]

InitGeom ==
    /\ pc = "geom"
    /\ r1 \in GeomBoxes /\ r2 \in GeomBoxes
    /\ margin \in 0 .. MaxMargin
    /\ smAB = FALSE /\ smBA = FALSE
    /\ width = 0 /\ height = 0
    /\ boxes = << >> /\ n0 = 0 /\ merges = 0 /\ passes = 0
    /\ bestIdx = 0 /\ result = Pending /\ firstOut = << >>
    /\ NoImage
    /\ NoOther

CallShouldMerge ==
    /\ pc = "geom"
    /\ smAB' = ShouldMerge(r1, r2, margin)
    /\ smBA' = ShouldMerge(r2, r1, margin)
    /\ pc' = "done"
    /\ UNCHANGED otherVars
    /\ UNCHANGED <<width, height, imageData, scene, grayData, blurredData,
                   thresholdIdx, allContours, boxes, n0, merges, passes,
                   bestIdx, result, firstOut, r1, r2, margin>>

NextGeom == CallShouldMerge

SpecGeom == InitGeom /\ [][NextGeom]_vars

\* Separation of the intervals [lo1, lo1 + len1] and [lo2, lo2 + len2] in
\* units of 1 / MarginDen (negative when they overlap).
Gap(lo1, len1, lo2, len2) ==
    MarginDen * Max(lo2 - (lo1 + len1), lo1 - (lo2 + len2))

\* C7: shouldMerge(a, b, m) = shouldMerge(b, a, m) for all boxes a, b and
\* every margin m >= 0.
ShouldMergeSymmetric == (pc = "done" /\ margin >= 0) => (smAB = smBA)

\* Two boxes that do not overlap were accepted, in both orders, thanks to
\* the margin.
MergedByMargin ==
    /\ pc = "done" /\ smAB /\ smBA /\ margin > 0
    /\ Gap(r1.x, r1.w, r2.x, r2.w) > 0

\* a expanded by margin and b share at least a boundary point.
ExpandedTouchesOrOverlaps(a, b, m) ==
    /\ Gap(a.x, a.w, b.x, b.w) <= m
    /\ Gap(a.y, a.h, b.y, b.h) <= m

\* C8 as stated: shouldMerge(a, b, margin) is true whenever a expanded by
\* margin intersects b, touching included.
MergeWhenTouching ==
    (pc = "done" /\ ExpandedTouchesOrOverlaps(r1, r2, margin)) => smAB

\* C8 amended: shouldMerge(a, b, margin) is true exactly when the separation
\* of a and b is strictly smaller than margin along both axes; when a
\* expanded by margin and b only touch it is false.
MergeIffCloserThanMargin ==
    (pc = "done") =>
        /\ smAB <=> (Gap(r1.x, r1.w, r2.x, r2.w) < margin
                     /\ Gap(r1.y, r1.h, r2.y, r2.h) < margin)
        /\ (MarginDen * (r1.x + r1.w) + margin = MarginDen * r2.x) => ~smAB

\* a.x + a.w + margin = b.x with overlapping y ranges: not merged.
TouchingNotMerged ==
    /\ pc = "done"
    /\ MarginDen * (r1.x + r1.w) + margin = MarginDen * r2.x
    /\ Gap(r1.y, r1.h, r2.y, r2.h) < 0
    /\ ~smAB

(***************************************************************************)
(* mergeNearbyBoxes on lists of boxes, run a second time on its own        *)
(* output (SpecMerge).                                                     *)
(***************************************************************************)
MergeDims == {<<10, 10>>, <<40, 30>>}

MergeBoxes ==
    [x : 0 .. MaxCoord, y : {0}, w : 0 .. MaxSide, h : {1}]
        \cup {[x |-> 0, y |-> 2, w |-> 1, h |-> 1],
              [x |-> MaxCoord, y |-> 2, w |-> 1, h |-> 0]}

InitMerge ==
    /\ pc = "run1"
    /\ \E d \in MergeDims : width = d[1] /\ height = d[2]
    /\ boxes \in SeqsUpTo(MergeBoxes, 0, MaxBoxes)
    /\ n0 = Len(boxes) /\ merges = 0 /\ passes = 0
    /\ bestIdx = 0
    /\ result = Pending
    /\ firstOut = << >>
    /\ NoImage
    /\ NoGeom
    /\ NoOther

FirstRunShort ==
    /\ MergeShort("run1", "out1")
    /\ UNCHANGED otherVars
    /\ UNCHANGED <<width, height, imageData, scene, grayData, blurredData,
                   thresholdIdx, allContours, n0, bestIdx, result,
                   firstOut, r1, r2, margin, smAB, smBA>>

FirstRunPass ==
    /\ MergePass("run1", "out1")
    /\ UNCHANGED otherVars
    /\ UNCHANGED <<width, height, imageData, scene, grayData, blurredData,
                   thresholdIdx, allContours, n0, bestIdx, result,
                   firstOut, r1, r2, margin, smAB, smBA>>

\* The output of the first run becomes the input of the second.
Rerun ==
    /\ pc = "out1"
    /\ firstOut' = boxes
    /\ n0' = Len(boxes) /\ merges' = 0 /\ passes' = 0
    /\ pc' = "run2"
    /\ UNCHANGED otherVars
    /\ UNCHANGED <<width, height, imageData, scene, grayData, blurredData,
                   thresholdIdx, allContours, boxes, bestIdx, result,
                   r1, r2, margin, smAB, smBA>>

SecondRunShort ==
    /\ MergeShort("run2", "done")
    /\ UNCHANGED otherVars
    /\ UNCHANGED <<width, height, imageData, scene, grayData, blurredData,
                   thresholdIdx, allContours, n0, bestIdx, result,
                   firstOut, r1, r2, margin, smAB, smBA>>

SecondRunPass ==
    /\ MergePass("run2", "done")
    /\ UNCHANGED otherVars
    /\ UNCHANGED <<width, height, imageData, scene, grayData, blurredData,
                   thresholdIdx, allContours, n0, bestIdx, result,
                   firstOut, r1, r2, margin, smAB, smBA>>

NextMerge ==
    \/ FirstRunShort
    \/ FirstRunPass
    \/ Rerun
    \/ SecondRunShort
    \/ SecondRunPass

SpecMerge == InitMerge /\ [][NextMerge]_vars

Range(s) == {s[k] : k \in 1 .. Len(s)}

\* C9: mergeNearbyBoxes run again on its own output returns the same set of
\* boxes, and no pair of output boxes satisfies shouldMerge with margin
\* 0.05 * min(imgWidth, imgHeight).
MergeIdempotent ==
    /\ (pc = "done") => (Range(boxes) = Range(firstOut) /\ Len(boxes) = Len(firstOut))
    /\ (pc \in {"out1", "done"}) =>
           \A i, j \in 1 .. Len(boxes) :
               i # j => ~ShouldMerge(boxes[i], boxes[j], MergeMargin(width, height))

\* The second run ended on the output of a first run that merged twice and
\* left more than one box.
RerunAfterMerges ==
    /\ pc = "done" /\ Len(firstOut) >= 2 /\ passes = 1
    /\ \E k \in 1 .. Len(firstOut) : firstOut[k].w > MaxSide

MergeBounded ==
    /\ Len(boxes) + merges = n0
    /\ (n0 >= 1) => (merges <= n0 - 1 /\ Len(boxes) >= 1)
    /\ passes <= merges + 1
    /\ (pc \in {"run1", "run2"}) => (passes = merges)
    /\ (pc \in {"out1", "done"} /\ n0 >= 2) =>
           /\ passes = merges + 1
           /\ MergeablePairs(boxes, MergeMargin(width, height)) = {}

\* A step taken inside the loop is a pass: either it merges one pair,
\* shortening the list by exactly one, and the scan restarts, or it finds no
\* pair and the call returns the list as it is.
MergeProgress ==
    (pc \in {"run1", "run2"}) =>
        /\ passes' <= n0
        /\ \/ /\ pc' = pc /\ passes' = passes + 1 /\ merges' = merges + 1
              /\ Len(boxes') = Len(boxes) - 1
           \/ /\ pc' \notin {"run1", "run2"} /\ boxes' = boxes /\ merges' = merges

\* C10: mergeNearbyBoxes terminates: every restart of the pair scan follows
\* a merge that shortens the list by exactly one, so n input boxes see at
\* most n-1 merges and at most n passes; the loop ends after a full pass
\* without a mergeable pair; a non-empty input gives a non-empty output.
MergeTerminates == []MergeBounded /\ [][MergeProgress]_vars

\* A run of mergeNearbyBoxes on three boxes ended after two merges.
MergedDownToOne ==
    /\ pc = "out1" /\ n0 = 3 /\ merges = 2 /\ Len(boxes) = 1

(***************************************************************************)
(* mergeNearbyBoxes on a list of boxes and on a permutation of the same    *)
(* list (SpecOrder).                                                       *)
(***************************************************************************)
OrderBoxes ==
    [x : 0 .. MaxCoord, y : {0}, w : {1}, h : {1}]
        \cup {[x |-> 0, y |-> 0, w |-> 1, h |-> 3],
              [x |-> 1, y |-> 2, w |-> 2, h |-> 1]}

Bijections(n) ==
    {f \in [1 .. n -> 1 .. n] : \A i, j \in 1 .. n : i # j => f[i] # f[j]}

Reorderings(s) == {[k \in 1 .. Len(s) |-> s[f[k]]] : f \in Bijections(Len(s))}

InitOrder ==
    /\ pc = "run1"
    /\ \E d \in MergeDims : width = d[1] /\ height = d[2]
    /\ boxes \in SeqsUpTo(OrderBoxes, 0, MaxBoxes)
    /\ inputBoxes = boxes
    /\ n0 = Len(boxes) /\ merges = 0 /\ passes = 0
    /\ bestIdx = 0
    /\ result = Pending
    /\ firstOut = << >>
    /\ NoImage
    /\ NoGeom
    /\ edgeMask = << >> /\ ctxFailed = FALSE /\ NoCropper
    /\ NoEnhance
    /\ NoApp

\* The first output is kept and mergeNearbyBoxes is called on a permutation
\* of the same input.
Reorder ==
    /\ pc = "out1"
    /\ firstOut' = boxes
    /\ boxes' \in Reorderings(inputBoxes)
    /\ n0' = Len(inputBoxes) /\ merges' = 0 /\ passes' = 0
    /\ pc' = "run2"
    /\ UNCHANGED <<width, height, imageData, scene, grayData, blurredData,
                   thresholdIdx, allContours, bestIdx, result,
                   r1, r2, margin, smAB, smBA>>
    /\ UNCHANGED otherVars

NextOrder ==
    \/ FirstRunShort
    \/ FirstRunPass
    \/ Reorder
    \/ SecondRunShort
    \/ SecondRunPass

SpecOrder == InitOrder /\ [][NextOrder]_vars

\* C11: for every list of boxes with w > 0 and h > 0 and every permutation
\* of it, mergeNearbyBoxes returns the same set of boxes.
MergeOrderIndependent ==
    (pc = "done" /\ \A k \in 1 .. Len(inputBoxes) :
                        inputBoxes[k].w > 0 /\ inputBoxes[k].h > 0)
        => Range(boxes) = Range(firstOut)

\* Both runs merged and left several boxes, which the permuted run returned
\* in another list order.
PermutedRunReordersOutput ==
    /\ pc = "done" /\ merges >= 1 /\ Len(boxes) >= 2
    /\ boxes # firstOut
    /\ Range(boxes) = Range(firstOut)

(***************************************************************************)
(* findContours on binary masks (SpecContours).                            *)
(***************************************************************************)
Masks(w, h) == [0 .. (w * h - 1) -> {0, 255}]

InitContours ==
    /\ pc = "contours"
    /\ width \in 1 .. MaxMaskW
    /\ height \in 1 .. MaxMaskH
    /\ edgeMask \in Masks(width, height)
    /\ imageData = << >> /\ scene = NoScene
    /\ grayData = << >> /\ blurredData = << >>
    /\ thresholdIdx = 1
    /\ allContours = << >>
    /\ boxes = << >> /\ n0 = 0 /\ merges = 0 /\ passes = 0
    /\ bestIdx = 0 /\ result = Pending /\ firstOut = << >>
    /\ NoGeom
    /\ inputBoxes = << >> /\ ctxFailed = FALSE /\ NoCropper
    /\ NoEnhance
    /\ NoApp

CallFindContours ==
    /\ pc = "contours"
    /\ allContours' = FindContours(edgeMask, width, height)
    /\ pc' = "done"
    /\ UNCHANGED <<width, height, imageData, scene, grayData, blurredData,
                   thresholdIdx, boxes, n0, merges, passes, bestIdx, result,
                   firstOut, r1, r2, margin, smAB, smBA>>
    /\ UNCHANGED otherVars

NextContours == CallFindContours

SpecContours == InitContours /\ [][NextContours]_vars

EdgePixels == {p \in DOMAIN edgeMask : edgeMask[p] = 255}

Adjacent8(p, q) ==
    /\ p # q
    /\ (p % width) - (q % width) \in {-1, 0, 1}
    /\ (p \div width) - (q \div width) \in {-1, 0, 1}

\* The edge pixels joined to a pixel of S by a path of 8-adjacent edge pixels.
RECURSIVE Component(_)
Component(S) ==
    LET T == S \cup {q \in EdgePixels : \E p \in S : Adjacent8(p, q)}
    IN  IF T = S THEN S ELSE Component(T)

InMask(pt) == pt.x >= 0 /\ pt.x < width /\ pt.y >= 0 /\ pt.y < height

PixelsOf(contour) == {contour[i].y * width + contour[i].x : i \in 1 .. Len(contour)}

\* C12: the contours returned by findContours partition the 255-valued
\* pixels of the mask: every edge pixel is in exactly one contour and once
\* in it, no other pixel appears, no contour is empty, and each contour is a
\* maximal 8-connected component of the mask.
ContoursPartitionMask ==
    (pc = "done") =>
        /\ \A k \in 1 .. Len(allContours) :
               LET c == allContours[k]
               IN  /\ Len(c) > 0
                   /\ \A i \in 1 .. Len(c) : InMask(c[i])
                   /\ PixelsOf(c) \subseteq EdgePixels
                   /\ \A i, j \in 1 .. Len(c) : i # j => c[i] # c[j]
                   /\ PixelsOf(c) = Component({c[1].y * width + c[1].x})
        /\ \A p \in EdgePixels :
               Cardinality({k \in 1 .. Len(allContours) : p \in PixelsOf(allContours[k])}) = 1

\* Two contours were returned, one of them holding two pixels that touch
\* only at a corner.
DiagonalPixelsJoined ==
    /\ pc = "done" /\ Len(allContours) = 2
    /\ \E k \in 1 .. 2 :
           LET c == allContours[k]
           IN  /\ Len(c) = 2
               /\ c[1].x # c[2].x /\ c[1].y # c[2].y
               /\ edgeMask[c[1].y * width + c[2].x] = 0
               /\ edgeMask[c[2].y * width + c[1].x] = 0

(***************************************************************************)
(* enhanceImage.  The contrast factor 1.05 is ContrastNum / ContrastDen;   *)
(* a pixel of a buffer is <<r, g, b, a>>.                                  *)
(***************************************************************************)
SharpenKernel == <<0, -1, 0, -1, 5, -1, 0, -1, 0>>

\* h < 512 || w < 512
NeedsUpscaleBoth(w, h) == h < UpscaleThreshold /\ w < UpscaleThreshold
NeedsUpscale(w, h) == h < UpscaleThreshold \/ w < UpscaleThreshold

\* Math.max(0, Math.min(255, v))
ClampByte(v) == Max(0, Min(255, v))

\* One tap of the sharpen loops; the kernel index is (k+1)*3 + (l+1) with
\* k the row offset and l the column offset; a tap outside the buffer adds
\* nothing to the sum.
SharpenTap(d, w, h, x, y, c, t) ==
    LET nx == x + (t % 3) - 1
        ny == y + (t \div 3) - 1
    IN  IF nx >= 0 /\ nx < w /\ ny >= 0 /\ ny < h
        THEN d[ny * w + nx][c] * SharpenKernel[t + 1]
        ELSE 0

SharpenSum(d, w, h, x, y, c) ==
    LET t(k) == SharpenTap(d, w, h, x, y, c, k)
    IN  t(0) + t(1) + t(2) + t(3) + t(4) + t(5) + t(6) + t(7) + t(8)

SharpenChannel(d, w, h, p, c) ==
    ToUint8Clamp(ClampByte(SharpenSum(d, w, h, p % w, p \div w, c)), 1)

\* The sharpen loop without its last statement: alpha stays at the 0 of a
\* new Uint8ClampedArray.
SharpenNoAlpha(d, w, h) ==
    [p \in 0 .. (w * h - 1) |->
        <<SharpenChannel(d, w, h, p, 1), SharpenChannel(d, w, h, p, 2),
          SharpenChannel(d, w, h, p, 3), 0>>]

Sharpen(d, w, h) ==
    [p \in 0 .. (w * h - 1) |->
        <<SharpenChannel(d, w, h, p, 1), SharpenChannel(d, w, h, p, 2),
          SharpenChannel(d, w, h, p, 3), d[p][4]>>]

\* data[i] = Math.max(0, Math.min(255, alpha * data[i] + beta))
ContrastChannel(v) ==
    ToUint8Clamp(Max(0, Min(255 * ContrastDen,
                            ContrastNum * v + Brightness * ContrastDen)),
                 ContrastDen)

Contrast(d) ==
    [p \in DOMAIN d |->
        <<ContrastChannel(d[p][1]), ContrastChannel(d[p][2]),
          ContrastChannel(d[p][3]), d[p][4]>>]

EnhanceError == [kind |-> "error", width |-> 0, height |-> 0]
Blob(w, h) == [kind |-> "blob", width |-> w, height |-> h]

\* loadImage and the canvas of the image's size: the promise of loadImage
\* rejects, or getContext returns null and enhanceImage throws, or w and h
\* are the image's size.
EnhanceStart ==
    /\ pc = "enhance"
    /\ \E outcome \in {"loaded", "loadError", "noContext"} :
           /\ ctxFailed' = (outcome = "noContext")
           /\ UNCHANGED cropperVars
           /\ IF outcome = "loaded"
              THEN /\ canvasWidth' = width /\ canvasHeight' = height
                   /\ pc' = "upscale" /\ blob' = blob
              ELSE /\ canvasWidth' = IF outcome = "noContext" THEN width ELSE canvasWidth
                   /\ canvasHeight' = IF outcome = "noContext" THEN height ELSE canvasHeight
                   /\ pc' = "failed" /\ blob' = EnhanceError
    /\ UNCHANGED <<dataLength, pixelData, sharpenedData>>
    /\ UNCHANGED detectVars
    /\ UNCHANGED appVars

\* Step 1, small image: the upscaled canvas becomes the canvas, or its
\* context is null and enhanceImage throws.
Upscale ==
    /\ pc = "upscale"
    /\ NeedsUpscale(canvasWidth, canvasHeight)
    /\ \E gotContext \in BOOLEAN :
           /\ ctxFailed' = ~gotContext
           /\ UNCHANGED cropperVars
           /\ IF gotContext
              THEN /\ canvasWidth' = canvasWidth * UpscaleFactor
                   /\ canvasHeight' = canvasHeight * UpscaleFactor
                   /\ pc' = "read" /\ blob' = blob
              ELSE /\ pc' = "failed" /\ blob' = EnhanceError
                   /\ UNCHANGED <<canvasWidth, canvasHeight>>
    /\ UNCHANGED <<dataLength, pixelData, sharpenedData>>
    /\ UNCHANGED detectVars
    /\ UNCHANGED appVars

\* Step 1, otherwise: the image is drawn on the canvas of its own size.
DrawOriginal ==
    /\ pc = "upscale"
    /\ ~NeedsUpscale(canvasWidth, canvasHeight)
    /\ pc' = "read"
    /\ UNCHANGED <<cropperVars, ctxFailed, canvasWidth, canvasHeight, dataLength, pixelData,
                   sharpenedData, blob>>
    /\ UNCHANGED detectVars
    /\ UNCHANGED appVars

\* canvas.toBlob: the blob has the size of the canvas, or the callback gets
\* null and the promise rejects.
ExportBlob ==
    /\ pc = "export"
    /\ \E gotBlob \in BOOLEAN :
           IF gotBlob
           THEN blob' = Blob(canvasWidth, canvasHeight) /\ pc' = "done"
           ELSE blob' = EnhanceError /\ pc' = "failed"
    /\ UNCHANGED <<cropperVars, ctxFailed, canvasWidth, canvasHeight, dataLength, pixelData,
                   sharpenedData>>
    /\ UNCHANGED detectVars
    /\ UNCHANGED appVars

NoBoxes ==
    /\ boxes = << >> /\ n0 = 0 /\ merges = 0 /\ passes = 0
    /\ bestIdx = 0 /\ result = Pending /\ firstOut = << >>
    /\ inputBoxes = << >> /\ edgeMask = << >>

(***************************************************************************)
(* The canvas and buffer sizes of enhanceImage on images around the        *)
(* upscaling threshold (SpecEnhanceDims).  Steps 2 and 3 are followed by   *)
(* the length of their buffers only; their values are in SpecEnhance.      *)
(***************************************************************************)
EnhanceSizes ==
    (1 .. MaxEnhW) \cup {UpscaleThreshold - 1, UpscaleThreshold,
                         UpscaleThreshold + 1, UpscaleThreshold * UpscaleFactor}

InitEnhanceDims ==
    /\ pc = "enhance"
    /\ width \in EnhanceSizes
    /\ height \in EnhanceSizes
    /\ NoImage /\ NoBoxes /\ NoGeom
    /\ ctxFailed = FALSE /\ NoCropper
    /\ NoEnhance
    /\ NoApp

\* getImageData(0, 0, w, h), new Uint8ClampedArray(data.length), the
\* in-place contrast loop and putImageData(new ImageData(data, w, h)).
PixelStages ==
    /\ pc = "read"
    /\ dataLength' = 4 * canvasWidth * canvasHeight
    /\ pc' = "export"
    /\ UNCHANGED <<cropperVars, ctxFailed, canvasWidth, canvasHeight, pixelData,
                   sharpenedData, blob>>
    /\ UNCHANGED detectVars
    /\ UNCHANGED appVars

NextEnhanceDims ==
    \/ EnhanceStart
    \/ Upscale
    \/ DrawOriginal
    \/ PixelStages
    \/ ExportBlob

SpecEnhanceDims == InitEnhanceDims /\ [][NextEnhanceDims]_vars

\* C13: if the input width < 512 or the input height < 512 the output of
\* enhanceImage is exactly 2*width by 2*height, both dimensions doubled;
\* if both are >= 512 the output has the input's dimensions.
EnhancedSizeDoubledOrKept ==
    (blob.kind = "blob") =>
        IF width < 512 \/ height < 512
        THEN blob.width = 2 * width /\ blob.height = 2 * height
        ELSE blob.width = width /\ blob.height = height

\* An image 512 wide but less than 512 high came out with both sides
\* doubled.
WideImageDoubled ==
    /\ pc = "done" /\ blob.kind = "blob"
    /\ width = 512 /\ height < 512
    /\ blob.width = 1024 /\ blob.height = 2 * height
    /\ dataLength = 4 * blob.width * blob.height

(***************************************************************************)
(* The pixel stages of enhanceImage on small images, which are all         *)
(* upscaled (SpecEnhance).  The resampling of drawImage belongs to the     *)
(* browser: the buffer that getImageData reads back is any buffer of the   *)
(* canvas size, here a uniform background with one solid rectangle.        *)
(***************************************************************************)
Grey == <<100, 100, 100, 255>>
Tie == <<10, 30, 250, 128>>

EnhancePairs == {<<Grey, Grey>>, <<Black, White>>, <<White, Black>>,
                 <<Dim, Tie>>, <<Tie, Mid>>, <<Mid, Grey>>}

Buffers(w, h) ==
    {Render([bg |-> c[1], fg |-> c[2], x |-> x, y |-> y, w |-> rw, h |-> rh], w, h) :
        c \in EnhancePairs, x \in 0 .. (w - 1), y \in 0 .. (h - 1),
        rw \in 1 .. w, rh \in 1 .. h}

InitEnhance ==
    /\ pc = "enhance"
    /\ width \in 1 .. MaxEnhW
    /\ height \in 1 .. MaxEnhH
    /\ NoImage /\ NoBoxes /\ NoGeom
    /\ ctxFailed = FALSE /\ NoCropper
    /\ NoEnhance
    /\ NoApp

\* imageData = ctx.getImageData(0, 0, w, h); data = imageData.data
GetImageData ==
    /\ pc = "read"
    /\ pixelData' \in Buffers(canvasWidth, canvasHeight)
    /\ dataLength' = 4 * canvasWidth * canvasHeight
    /\ pc' = "sharpen"
    /\ UNCHANGED <<cropperVars, ctxFailed, canvasWidth, canvasHeight, sharpenedData, blob>>
    /\ UNCHANGED detectVars
    /\ UNCHANGED appVars

\* Step 2: sharpenedData is filled from data.
SharpenStage ==
    /\ pc = "sharpen"
    /\ sharpenedData' = Sharpen(pixelData, canvasWidth, canvasHeight)
    /\ pc' = "contrast"
    /\ UNCHANGED <<cropperVars, ctxFailed, canvasWidth, canvasHeight, dataLength, pixelData,
                   blob>>
    /\ UNCHANGED detectVars
    /\ UNCHANGED appVars

\* Step 3: data, which is now sharpenedData, is adjusted in place.
ContrastStage ==
    /\ pc = "contrast"
    /\ sharpenedData' = Contrast(sharpenedData)
    /\ pc' = "export"
    /\ UNCHANGED <<cropperVars, ctxFailed, canvasWidth, canvasHeight, dataLength, pixelData,
                   blob>>
    /\ UNCHANGED detectVars
    /\ UNCHANGED appVars

NextEnhance ==
    \/ EnhanceStart
    \/ Upscale
    \/ GetImageData
    \/ SharpenStage
    \/ ContrastStage
    \/ ExportBlob

SpecEnhance == InitEnhance /\ [][NextEnhance]_vars

\* C14: after the sharpen stage and after the contrast/brightness stage
\* every R, G and B value is an integer in [0,255] and the alpha of every
\* pixel is its alpha before sharpening.
ChannelsInRangeAlphaKept ==
    (pc \in {"contrast", "export", "done"}) =>
        /\ DOMAIN sharpenedData = DOMAIN pixelData
        /\ \A p \in DOMAIN sharpenedData :
               /\ \A c \in 1 .. 3 : sharpenedData[p][c] \in 0 .. 255
               /\ sharpenedData[p][4] = pixelData[p][4]

\* Both stages ran on a buffer whose sharpen sums leave [0,255] on both
\* sides and which has a pixel that is not opaque.
SharpenSumsClamped ==
    /\ pc = "export"
    /\ \E p \in DOMAIN pixelData : \E c \in 1 .. 3 :
           SharpenSum(pixelData, canvasWidth, canvasHeight,
                      p % canvasWidth, p \div canvasWidth, c) > 255
    /\ \E p \in DOMAIN pixelData : \E c \in 1 .. 3 :
           SharpenSum(pixelData, canvasWidth, canvasHeight,
                      p % canvasWidth, p \div canvasWidth, c) < 0
    /\ \E p \in DOMAIN pixelData : pixelData[p][4] # 255

\* C15: sharpening a buffer whose R, G, B values are all the same value v
\* gives v at every pixel, border and corner pixels included.
UniformBufferUnchanged ==
    (pc = "contrast"
        /\ \E v \in 0 .. 255 :
               \A p \in DOMAIN pixelData : \A c \in 1 .. 3 : pixelData[p][c] = v)
        => \A p \in DOMAIN pixelData : \A c \in 1 .. 3 :
               sharpenedData[p][c] = pixelData[p][c]

(***************************************************************************)
(* predict of useAutoCropModel (SpecPredict).  The padding                 *)
(* 0.02 * min(w, h) is min(w, h) / PaddingDen, and Math.round is made on   *)
(* numerators over PaddingDen.  isModelReady is true from its useState on. *)
(***************************************************************************)
\* Math.round(num / den), den > 0: halves go up.
RoundDown(num, den) == num \div den
RoundHalfUp(num, den) == (2 * num + den) \div (2 * den)

FallbackCrop(w, h) == [x |-> 0, y |-> 0, w |-> w, h |-> h]

PaddedCrop(suggestedCrop, w, h) ==
    LET padding == Min(suggestedCrop.w, suggestedCrop.h)
        x == Max(0, RoundHalfUp(PaddingDen * suggestedCrop.x - padding, PaddingDen))
        y == Max(0, RoundHalfUp(PaddingDen * suggestedCrop.y - padding, PaddingDen))
        cw == RoundHalfUp(PaddingDen * suggestedCrop.w + 2 * padding, PaddingDen)
        ch == RoundHalfUp(PaddingDen * suggestedCrop.h + 2 * padding, PaddingDen)
    IN  [x |-> x, y |-> y,
         w |-> IF x + cw > w THEN w - x ELSE cw,
         h |-> IF y + ch > h THEN h - y ELSE ch]

Predict(suggested, w, h) ==
    IF suggested.kind = "null" THEN Box(FallbackCrop(w, h))
    ELSE IF suggested.box.w <= 0 \/ suggested.box.h <= 0 THEN Box(FallbackCrop(w, h))
    ELSE Box(PaddedCrop(suggested.box, w, h))

PredictDims == {<<150, 150>>, <<200, 150>>}

PredictSides == {25 * k : k \in 1 .. MaxPad} \cup {10, 37, 140}

\* What suggestCropWithEdgeDetection can resolve to on a w x h image: boxes
\* on interior pixels that pass both area tests; the two boxes without area
\* are there for the defensive test of predict.
SuggestedBoxes(w, h) ==
    {b \in [x : {1, 8, w - 39}, y : {1, 8, h - 39},
            w : PredictSides, h : PredictSides] :
        /\ b.x + b.w <= w - 2 /\ b.y + b.h <= h - 2
        /\ Keeps(b, w, h) /\ ~TooLarge(b, w, h)}
        \cup {[x |-> 1, y |-> 1, w |-> 0, h |-> 25],
              [x |-> 1, y |-> 1, w |-> 25, h |-> 0]}

InitPredict ==
    /\ pc = "predict"
    /\ \E d \in PredictDims : width = d[1] /\ height = d[2]
    /\ NoImage /\ NoBoxes /\ NoGeom
    /\ ctxFailed = FALSE /\ NoCropper
    /\ NoEnhance
    /\ NoApp

\* suggestCropWithEdgeDetection when getContext returns null: the throw is
\* inside the try, the catch logs it and returns null.
SuggestNoContext ==
    /\ pc = "predict"
    /\ ctxFailed' = TRUE
    /\ UNCHANGED cropperVars
    /\ result' = Null
    /\ pc' = "suggested"
    /\ UNCHANGED <<width, height, imageData, scene, grayData, blurredData,
                   thresholdIdx, allContours, boxes, n0, merges, passes,
                   bestIdx, firstOut, r1, r2, margin, smAB, smBA,
                   inputBoxes, edgeMask>>
    /\ UNCHANGED enhanceVars
    /\ UNCHANGED appVars

\* suggestCropWithEdgeDetection with a context: null or a box.
SuggestOutcome ==
    /\ pc = "predict"
    /\ result' \in {Null} \cup {Box(b) : b \in SuggestedBoxes(width, height)}
    /\ pc' = "suggested"
    /\ UNCHANGED <<width, height, imageData, scene, grayData, blurredData,
                   thresholdIdx, allContours, boxes, n0, merges, passes,
                   bestIdx, firstOut, r1, r2, margin, smAB, smBA,
                   inputBoxes, edgeMask>>
    /\ UNCHANGED <<ctxFailed, cropperVars>>
    /\ UNCHANGED enhanceVars
    /\ UNCHANGED appVars

\* The rest of predict, after the await.
PredictReturn ==
    /\ pc = "suggested"
    /\ crop' = Predict(result, width, height)
    /\ pc' = "done"
    /\ UNCHANGED <<items, isBatchProcessing, loopQueue, zip, downloaded>>
    /\ UNCHANGED <<ctxFailed, cropperVars>>
    /\ UNCHANGED detectVars
    /\ UNCHANGED enhanceVars

NextPredict ==
    \/ SuggestNoContext
    \/ SuggestOutcome
    \/ PredictReturn

SpecPredict == InitPredict /\ [][NextPredict]_vars

\* C16: when the canvas 2D context cannot be obtained the detection engine
\* does not report no-suggestion (null) and predict does not return the
\* full-image fallback box: an error reaches the caller.
ContextFailureSurfaced ==
    /\ (ctxFailed /\ pc \in {"suggested", "done"}) => result # Null
    /\ (ctxFailed /\ pc = "done") => crop.kind = "error"

SuggestionUsable ==
    result.kind = "box" /\ result.box.w > 0 /\ result.box.h > 0

\* C17: for W > 0 and H > 0 and every outcome of detection, predict returns
\* a box with integer x >= 0, y >= 0, w > 0, h > 0, x + w <= W, y + h <= H:
\* the full-image box when detection returns null or a box with w <= 0 or
\* h <= 0, otherwise the suggested box expanded by padding = 0.02 * min(w, h)
\* (x and y moved by at most padding, w and h grown by at most 2 * padding,
\* to the nearest integer) and clamped, which contains the suggested box.
PredictedBoxWithinImage ==
    (pc = "done" /\ width > 0 /\ height > 0) =>
        /\ crop.kind = "box"
        /\ crop.box.x \in Nat /\ crop.box.y \in Nat
        /\ crop.box.w \in Nat /\ crop.box.h \in Nat
        /\ crop.box.w > 0 /\ crop.box.h > 0
        /\ crop.box.x + crop.box.w <= width
        /\ crop.box.y + crop.box.h <= height
        /\ ~SuggestionUsable => crop.box = [x |-> 0, y |-> 0, w |-> width, h |-> height]
        /\ SuggestionUsable =>
               LET s == result.box
                   pad == Min(s.w, s.h)
               IN  /\ crop.box.x <= s.x /\ crop.box.y <= s.y
                   /\ crop.box.x + crop.box.w >= s.x + s.w
                   /\ crop.box.y + crop.box.h >= s.y + s.h
                   /\ 100 * (s.x - crop.box.x) <= 2 * pad + 50
                   /\ 100 * (s.y - crop.box.y) <= 2 * pad + 50
                   /\ 100 * (crop.box.w - s.w) <= 4 * pad + 50
                   /\ 100 * (crop.box.h - s.h) <= 4 * pad + 50

\* A suggested box 140 wide ending at the last interior column was padded
\* by 2.8 and its width clamped at the image's right side.
PaddedBoxClamped ==
    /\ pc = "done" /\ SuggestionUsable
    /\ result.box.w = 140 /\ result.box.x + result.box.w = width - 2
    /\ crop.box.x = result.box.x - 3
    /\ crop.box.x + crop.box.w = width

(***************************************************************************)
(* The items of App and its auto-crop handlers (SpecBatch).  An item is    *)
(* [status, isProcessing, error, cropped, enhance]; cropped says that      *)
(* updateItemCrop has stored a predicted box.  loadImage and predict are   *)
(* awaited: each either resolves or rejects.                               *)
(***************************************************************************)
NoError == "none"
CropFailed == "AI crop failed. Please try again."
BatchCropFailed == "AI crop failed."

NewItem(status, enhance) ==
    [status |-> status, isProcessing |-> FALSE, error |-> NoError,
     cropped |-> FALSE, enhance |-> enhance]

Ids(its) == [k \in 1 .. Len(its) |-> k]

\* items.filter(i => i.status === 'loaded' && !i.isProcessing)
ItemsToCrop(its) ==
    SelectSeq(Ids(its), LAMBDA k : its[k].status = "loaded" /\ ~its[k].isProcessing)

InBatch(k) == \E n \in 1 .. Len(loopQueue.ids) : loopQueue.ids[n] = k

\* { ...x, isProcessing: true, error: null, hasBeenManuallyAdjusted: false }
StartProcessing(item) == [item EXCEPT !.isProcessing = TRUE, !.error = NoError]

\* updateItemCrop(x, box, ...) clears the error and stores the box.
UpdateItemCrop(item) == [item EXCEPT !.cropped = TRUE, !.error = NoError]

InitBatch ==
    /\ pc = "idle"
    /\ items \in SeqsUpTo({NewItem(st, TRUE) : st \in {"loading", "loaded", "error"}},
                          0, MaxItems)
    /\ isBatchProcessing = FALSE
    /\ loopQueue = NoLoop /\ zip = {} /\ downloaded = FALSE
    /\ crop = Pending
    /\ width = 0 /\ height = 0
    /\ NoImage /\ NoBoxes /\ NoGeom
    /\ ctxFailed = FALSE /\ NoCropper
    /\ NoEnhance

\* handleAutoCrop up to its first await.
AutoCropStart ==
    /\ pc = "idle"
    /\ \E k \in 1 .. Len(items) :
           /\ items[k].status = "loaded" /\ ~items[k].isProcessing
           /\ items' = [items EXCEPT ![k] = StartProcessing(items[k])]
    /\ UNCHANGED <<pc, crop, isBatchProcessing, loopQueue, zip, downloaded>>
    /\ UNCHANGED <<ctxFailed, cropperVars>>
    /\ UNCHANGED detectVars
    /\ UNCHANGED enhanceVars

\* handleAutoCrop after its awaits: the try block and finally, or the catch
\* block and finally.
AutoCropFinish ==
    /\ \E k \in 1 .. Len(items) :
           /\ items[k].isProcessing /\ ~InBatch(k)
           /\ \E ok \in BOOLEAN :
                  items' = [items EXCEPT ![k] =
                               IF ok
                               THEN [UpdateItemCrop(items[k]) EXCEPT !.isProcessing = FALSE]
                               ELSE [items[k] EXCEPT !.error = CropFailed,
                                                     !.isProcessing = FALSE]]
    /\ UNCHANGED <<pc, crop, isBatchProcessing, loopQueue, zip, downloaded>>
    /\ UNCHANGED <<ctxFailed, cropperVars>>
    /\ UNCHANGED detectVars
    /\ UNCHANGED enhanceVars

\* handleAutoCropAll up to its first await; it returns at once when there is
\* nothing to crop.
AutoCropAllStart ==
    /\ pc = "idle"
    /\ LET itemsToCrop == ItemsToCrop(items)
       IN  IF itemsToCrop = << >>
           THEN /\ pc' = "done"
                /\ UNCHANGED <<items, isBatchProcessing, loopQueue>>
           ELSE /\ isBatchProcessing' = TRUE
                /\ loopQueue' = [ids |-> itemsToCrop, next |-> 1]
                /\ items' = [k \in 1 .. Len(items) |->
                                IF \E n \in 1 .. Len(itemsToCrop) : itemsToCrop[n] = k
                                THEN StartProcessing(items[k]) ELSE items[k]]
                /\ pc' = "cropping"
    /\ UNCHANGED <<crop, zip, downloaded>>
    /\ UNCHANGED <<ctxFailed, cropperVars>>
    /\ UNCHANGED detectVars
    /\ UNCHANGED enhanceVars

\* The loop body without its try and catch: the rejection leaves
\* handleAutoCropAll.
AutoCropItemThrow ==
    /\ pc = "cropping"
    /\ loopQueue.next <= Len(loopQueue.ids)
    /\ pc' = "done"
    /\ UNCHANGED <<crop, items, isBatchProcessing, loopQueue, zip, downloaded>>
    /\ UNCHANGED <<ctxFailed, cropperVars>>
    /\ UNCHANGED detectVars
    /\ UNCHANGED enhanceVars

\* One iteration of the for loop whose awaits resolve.
AutoCropItemOk ==
    /\ pc = "cropping"
    /\ loopQueue.next <= Len(loopQueue.ids)
    /\ LET k == loopQueue.ids[loopQueue.next]
       IN  items' = [items EXCEPT ![k] =
                        [UpdateItemCrop(items[k]) EXCEPT !.isProcessing = FALSE]]
    /\ loopQueue' = [loopQueue EXCEPT !.next = loopQueue.next + 1]
    /\ UNCHANGED <<pc, crop, isBatchProcessing, zip, downloaded>>
    /\ UNCHANGED <<ctxFailed, cropperVars>>
    /\ UNCHANGED detectVars
    /\ UNCHANGED enhanceVars

\* One iteration of the for loop in which loadImage or predict rejects.
AutoCropItemFail ==
    /\ pc = "cropping"
    /\ loopQueue.next <= Len(loopQueue.ids)
    /\ LET k == loopQueue.ids[loopQueue.next]
       IN  items' = [items EXCEPT ![k] =
                        [items[k] EXCEPT !.isProcessing = FALSE,
                                         !.error = BatchCropFailed]]
    /\ loopQueue' = [loopQueue EXCEPT !.next = loopQueue.next + 1]
    /\ UNCHANGED <<pc, crop, isBatchProcessing, zip, downloaded>>
    /\ UNCHANGED <<ctxFailed, cropperVars>>
    /\ UNCHANGED detectVars
    /\ UNCHANGED enhanceVars

\* After the loop: setIsBatchProcessing(false).
AutoCropAllEnd ==
    /\ pc = "cropping"
    /\ loopQueue.next > Len(loopQueue.ids)
    /\ isBatchProcessing' = FALSE
    /\ pc' = "done"
    /\ UNCHANGED <<crop, items, loopQueue, zip, downloaded>>
    /\ UNCHANGED <<ctxFailed, cropperVars>>
    /\ UNCHANGED detectVars
    /\ UNCHANGED enhanceVars

NextBatch ==
    \/ AutoCropStart
    \/ AutoCropFinish
    \/ AutoCropAllStart
    \/ AutoCropItemOk
    \/ AutoCropItemFail
    \/ AutoCropAllEnd

SpecBatch == InitBatch /\ [][NextBatch]_vars

\* When the batch has finished no item of the batch is processing, each has
\* either a stored crop or the batch's error, and isBatchProcessing is false.
BatchSettled ==
    (pc = "done") =>
        /\ isBatchProcessing = FALSE
        /\ \A k \in 1 .. Len(items) :
               InBatch(k) =>
                   /\ ~items[k].isProcessing
                   /\ \/ items[k].cropped /\ items[k].error = NoError
                      \/ items[k].error = BatchCropFailed

\* While the batch runs, the items before the loop position are settled and
\* the later ones are still waiting.
BatchInProgress ==
    (pc = "cropping") =>
        /\ isBatchProcessing
        /\ \A n \in 1 .. Len(loopQueue.ids) :
               items[loopQueue.ids[n]].isProcessing <=> (n >= loopQueue.next)

\* A step of the loop on an item settles that item, with a crop or with an
\* error, and goes on to the next item whatever the outcome; the handler
\* leaves the loop only after the last item.
BatchStep ==
    (pc = "cropping") =>
        /\ (pc' # "cropping") => loopQueue.next > Len(loopQueue.ids)
        /\ (loopQueue.next <= Len(loopQueue.ids)) =>
               LET k == loopQueue.ids[loopQueue.next]
               IN  (items'[k] # items[k]) =>
                       /\ pc' = "cropping"
                       /\ loopQueue'.next = loopQueue.next + 1
                       /\ ~items'[k].isProcessing
                       /\ \/ items'[k].cropped /\ items'[k].error = NoError
                          \/ items'[k].error = BatchCropFailed

ItemsToExport(its) == SelectSeq(Ids(its), LAMBDA k : its[k].status = "loaded")

InitExport ==
    /\ pc = "idle"
    /\ items \in SeqsUpTo({NewItem(st, en) : st \in {"loading", "loaded", "error"},
                                             en \in BOOLEAN},
                          0, MaxItems)
    /\ isBatchProcessing = FALSE
    /\ loopQueue = NoLoop /\ zip = {} /\ downloaded = FALSE
    /\ crop = Pending
    /\ width = 0 /\ height = 0
    /\ NoImage /\ NoBoxes /\ NoGeom
    /\ ctxFailed = FALSE /\ NoCropper
    /\ NoEnhance

\* handleExportAll up to the for loop.
ExportAllStart ==
    /\ pc = "idle"
    /\ loopQueue' = [ids |-> ItemsToExport(items), next |-> 1]
    /\ zip' = {}
    /\ pc' = "exporting"
    /\ UNCHANGED <<crop, items, isBatchProcessing, downloaded>>
    /\ UNCHANGED <<ctxFailed, cropperVars>>
    /\ UNCHANGED detectVars
    /\ UNCHANGED enhanceVars

\* exportCropped resolves to a blob, which is added to the zip.
ExportItemBlob ==
    /\ pc = "exporting"
    /\ loopQueue.next <= Len(loopQueue.ids)
    /\ zip' = zip \cup {loopQueue.ids[loopQueue.next]}
    /\ loopQueue' = [loopQueue EXCEPT !.next = loopQueue.next + 1]
    /\ UNCHANGED <<pc, crop, items, isBatchProcessing, downloaded>>
    /\ UNCHANGED <<ctxFailed, cropperVars>>
    /\ UNCHANGED detectVars
    /\ UNCHANGED enhanceVars

\* exportCropped resolves to null (no context for the crop canvas, or
\* toBlob gave null): the item is skipped.
ExportItemNull ==
    /\ pc = "exporting"
    /\ loopQueue.next <= Len(loopQueue.ids)
    /\ loopQueue' = [loopQueue EXCEPT !.next = loopQueue.next + 1]
    /\ UNCHANGED <<pc, crop, items, isBatchProcessing, zip, downloaded>>
    /\ UNCHANGED <<ctxFailed, cropperVars>>
    /\ UNCHANGED detectVars
    /\ UNCHANGED enhanceVars

\* exportCropped rejects: loadImage rejects, or the item is enhanced and
\* enhanceImage throws or rejects.  No try surrounds the await, so the
\* promise of handleExportAll rejects there.
ExportItemThrow ==
    /\ pc = "exporting"
    /\ loopQueue.next <= Len(loopQueue.ids)
    /\ \E cause \in {"loadImage", "enhanceImage"} :
           cause = "enhanceImage" => items[loopQueue.ids[loopQueue.next]].enhance
    /\ pc' = "aborted"
    /\ UNCHANGED <<crop, items, isBatchProcessing, loopQueue, zip, downloaded>>
    /\ UNCHANGED <<ctxFailed, cropperVars>>
    /\ UNCHANGED detectVars
    /\ UNCHANGED enhanceVars

\* After the loop: zip.generateAsync and the click on the download link.
ExportZip ==
    /\ pc = "exporting"
    /\ loopQueue.next > Len(loopQueue.ids)
    /\ downloaded' = TRUE
    /\ pc' = "done"
    /\ UNCHANGED <<crop, items, isBatchProcessing, loopQueue, zip>>
    /\ UNCHANGED <<ctxFailed, cropperVars>>
    /\ UNCHANGED detectVars
    /\ UNCHANGED enhanceVars

NextExport ==
    \/ ExportAllStart
    \/ ExportItemBlob
    \/ ExportItemNull
    \/ ExportItemThrow
    \/ ExportZip

SpecExport == InitExport /\ [][NextExport]_vars

\* C19: in handleExportAll a failure while exporting one item is local to
\* that item: whenever the handler has ended, every item of the batch was
\* tried and the zip was generated and downloaded.
ExportFailuresLocal ==
    (pc \in {"done", "aborted"}) =>
        /\ loopQueue.next > Len(loopQueue.ids)
        /\ downloaded

(***************************************************************************)
(* toGrayscale on images whose first pixel takes every colour over         *)
(* GrayLevels and two alphas (SpecGray).                                   *)
(***************************************************************************)
GrayLevels == (0 .. MaxLevel) \cup {254, 255}

GrayColours == {<<r, g, b, a>> : r \in GrayLevels, g \in GrayLevels,
                                 b \in GrayLevels, a \in {0, 255}}

InitGray ==
    /\ pc = "start"
    /\ width \in 1 .. MaxGrayW
    /\ height \in 1 .. MaxGrayW
    /\ scene \in {[bg |-> bg, fg |-> fg, x |-> 0, y |-> 0, w |-> 1, h |-> 1] :
                     bg \in {Dim, Mid}, fg \in GrayColours}
    /\ imageData = Render(scene, width, height)
    /\ grayData = << >> /\ blurredData = << >>
    /\ thresholdIdx = 1
    /\ allContours = << >>
    /\ NoBoxes /\ NoGeom
    /\ ctxFailed = FALSE /\ NoCropper
    /\ NoEnhance
    /\ NoApp

NextGray == Grayscale

SpecGray == InitGray /\ [][NextGray]_vars

SumRGB(pixel) == pixel[1] + pixel[2] + pixel[3]

\* C20 as stated: the value at each pixel is floor((R+G+B)/3).
GrayIsTruncatedMean ==
    (pc = "blur") =>
        /\ DOMAIN grayData = 0 .. (width * height - 1)
        /\ \A p \in DOMAIN grayData : grayData[p] = SumRGB(imageData[p]) \div 3

GrayIsNearestMean ==
    (pc = "blur") =>
        /\ DOMAIN grayData = 0 .. (width * height - 1)
        /\ \A p \in DOMAIN grayData :
               /\ grayData[p] = (SumRGB(imageData[p]) + 1) \div 3
               /\ grayData[p] \in 0 .. 255
        /\ \A p, q \in DOMAIN grayData :
               (SumRGB(imageData[p]) = SumRGB(imageData[q])) => grayData[p] = grayData[q]

InputKept == imageData' = imageData /\ width' = width /\ height' = height

\* C20 amended: toGrayscale returns a buffer of the same width and height
\* whose value at each pixel is the unweighted mean (R+G+B)/3 rounded to
\* the nearest integer, i.e. floor((R+G+B+1)/3), for every R, G, B; alpha
\* does not affect the result and the input buffer is not modified.
GrayIsRoundedMean == []GrayIsNearestMean /\ [][InputKept]_vars

\* A transparent pixel whose channel sum leaves remainder 2 got the mean
\* rounded up.
MeanRoundedUp ==
    /\ pc = "blur"
    /\ \E p \in DOMAIN grayData :
           /\ SumRGB(imageData[p]) % 3 = 2
           /\ imageData[p][4] = 0
           /\ grayData[p] = SumRGB(imageData[p]) \div 3 + 1


(***************************************************************************)
(* The border rows and columns of the blurred buffer and of the edge       *)
(* masks (Spec).                                                           *)
(***************************************************************************)
BorderPixels ==
    {p \in 0 .. (width * height - 1) : ~Interior(p % width, p \div width, width, height)}

\* The edge mask of the k-th threshold on the blurred buffer.
EdgeMaskAt(k) == CannyEdgeDetector(blurredData, width, height, Thresholds[k])

\* C21: the outputs of gaussianBlur and of cannyEdgeDetector are 0 at every
\* pixel of row 0, row height-1, column 0 and column width-1; every point
\* of every contour has 1 <= x <= width-2 and 1 <= y <= height-2; images
\* with width < 3 or height < 3 have an all-zero edge mask.
BordersLeftZero ==
    /\ (blurredData # << >>) =>
           \A p \in BorderPixels : blurredData[p] = 0
    /\ (pc = "detect") =>
           \A k \in 1 .. Len(Thresholds) :
               /\ \A p \in BorderPixels :
                      /\ EdgeMaskAt(k)[p] = 0
                      /\ CannyEdgeDetector(grayData, width, height, Thresholds[k])[p] = 0
               /\ (width < 3 \/ height < 3) =>
                      \A p \in 0 .. (width * height - 1) : EdgeMaskAt(k)[p] = 0
    /\ \A k \in 1 .. Len(allContours) :
           \A i \in 1 .. Len(allContours[k]) :
               /\ 1 <= allContours[k][i].x /\ allContours[k][i].x <= width - 2
               /\ 1 <= allContours[k][i].y /\ allContours[k][i].y <= height - 2

\* A bright image border was blurred to 0 and a contour reaches from the
\* first to the last interior column and row.
ContourTouchesInnerFrame ==
    /\ pc = "detect" /\ thresholdIdx > Len(Thresholds)
    /\ \E p \in BorderPixels : grayData[p] = 255 /\ blurredData[p] = 0
    /\ \E k \in 1 .. Len(allContours) :
           /\ \E i \in 1 .. Len(allContours[k]) :
                  allContours[k][i].x = 1 /\ allContours[k][i].y = 1
           /\ \E i \in 1 .. Len(allContours[k]) :
                  allContours[k][i].x = width - 2 /\ allContours[k][i].y = height - 2


(***************************************************************************)
(* Images of one colour (Spec).                                            *)
(***************************************************************************)
UniformImage ==
    /\ imageData # << >>
    /\ \A p, q \in DOMAIN imageData : imageData[p] = imageData[q]

\* C26: for every image in which all pixels have the same colour,
\* suggestCropWithEdgeDetection returns no-suggestion (null).
UniformImageNoSuggestion ==
    (pc = "done" /\ UniformImage) => result = Null


(***************************************************************************)
(* suggestCropWithEdgeDetection up to mergeNearbyBoxes on the pooled       *)
(* contours, followed by the area filter and mergeNearbyBoxes on the       *)
(* contours of the first threshold alone (SpecPool).                       *)
(***************************************************************************)
\* Two marks on a uniform background: the rectangle of the scene and a
\* one-pixel spot to its right on the same row.
PoolColours == {<<Black, White>>, <<Black, Grey>>, <<Mid, White>>, <<Mid, Grey>>,
                <<Black, Dim>>}

PoolScenes ==
    {[bg |-> c[1], fg |-> c[2], x |-> 3, y |-> 3, w |-> rw, h |-> 1] :
        c \in PoolColours, rw \in 1 .. 2}

SecondSpots(s) ==
    {[bg |-> s.bg, fg |-> c, x |-> s.x + s.w + g, y |-> s.y, w |-> 1, h |-> 1] :
        c \in {s.bg, White, Grey}, g \in 1 .. MaxPoolGap}

RenderTwo(s, t, w, h) ==
    [p \in 0 .. (w * h - 1) |->
        IF InRect(t, p % w, p \div w) THEN t.fg ELSE Render(s, w, h)[p]]

InitPool ==
    /\ pc = "start"
    /\ width \in (MaxPoolW - 2) .. MaxPoolW
    /\ height \in (MaxPoolH - 1) .. MaxPoolH
    /\ scene \in PoolScenes
    /\ \E t \in SecondSpots(scene) : imageData = RenderTwo(scene, t, width, height)
    /\ grayData = << >> /\ blurredData = << >>
    /\ thresholdIdx = 1
    /\ allContours = << >>
    /\ boxes = << >>
    /\ n0 = 0 /\ merges = 0 /\ passes = 0
    /\ bestIdx = 0
    /\ result = Pending
    /\ firstOut = << >>
    /\ NoGeom
    /\ NoOther

LowContours == FindContours(EdgeMaskAt(1), width, height)
HighContours == FindContours(EdgeMaskAt(2), width, height)

\* The merged boxes of the pooled contours are set aside and the filtered
\* boxes of the first threshold's contours become the input of a second run.
LowThresholdOnly ==
    /\ pc = "select"
    /\ firstOut' = boxes
    /\ boxes' = FilterValid(MapBoundingRect(LowContours), width, height)
    /\ n0' = Len(boxes') /\ merges' = 0 /\ passes' = 0
    /\ pc' = "run2"
    /\ UNCHANGED otherVars
    /\ UNCHANGED <<width, height, imageData, scene, grayData, blurredData,
                   thresholdIdx, allContours, bestIdx, result,
                   r1, r2, margin, smAB, smBA>>

NextPool ==
    \/ Grayscale
    \/ Blur
    \/ Detect
    \/ NoContours
    \/ BoundAndFilter
    \/ SuggestMergeShort
    \/ SuggestMergePass
    \/ LowThresholdOnly
    \/ SecondRunShort
    \/ SecondRunPass

SpecPool == InitPool /\ [][NextPool]_vars

\* C25: the edge mask at threshold 70 is a subset of the edge mask at
\* threshold 30, every contour found at 70 lies inside one contour found at
\* 30, and pooling the contours of both thresholds gives, after the area
\* filter and mergeNearbyBoxes, the same set of merged boxes as the
\* threshold-30 contours alone.
HighMaskAddsNothing ==
    /\ (pc = "detect" /\ thresholdIdx > Len(Thresholds)) =>
           LET lowMask == EdgeMaskAt(1)
               highMask == EdgeMaskAt(2)
               low == FindContours(lowMask, width, height)
               high == FindContours(highMask, width, height)
           IN  /\ \A p \in DOMAIN blurredData : highMask[p] = 255 => lowMask[p] = 255
               /\ \A k \in 1 .. Len(high) :
                      \E j \in 1 .. Len(low) : PixelsOf(high[k]) \subseteq PixelsOf(low[j])
               /\ allContours = low \o high
    /\ (pc = "done" /\ result = Pending) => Range(boxes) = Range(firstOut)

\* Both runs are finished on an image whose 70-mask is a non-empty proper
\* subset of its 30-mask, where a contour of each threshold passed the area
\* filter, the pooled run had more boxes to merge and two boxes are left.
HighBoxAbsorbed ==
    /\ pc = "done" /\ result = Pending
    /\ Len(boxes) >= 2
    /\ \E p \in DOMAIN blurredData : EdgeMaskAt(2)[p] = 255
    /\ \E p \in DOMAIN blurredData : EdgeMaskAt(1)[p] = 255 /\ EdgeMaskAt(2)[p] = 0
    /\ FilterValid(MapBoundingRect(HighContours), width, height) # << >>
    /\ Len(firstOut) < Len(FilterValid(MapBoundingRect(allContours), width, height))
    /\ Range(MapBoundingRect(HighContours)) # Range(MapBoundingRect(LowContours))


(***************************************************************************)
(* The crop editor: one item of App (items[k], a record [status,           *)
(* isProcessing, error, width, height, crop, cropHistory,                  *)
(* cropHistoryIndex] with the 0-based index of the source) and the         *)
(* useCropper hook on it.  Mouse positions are whole client pixels; scale  *)
(* and zoom are whole numbers, so dx = (clientX - startX) / (scale * zoom) *)
(* is an exact multiple of 1 / (scale * zoom), and handleMouseMove is      *)
(* computed on numerators over that denominator.                           *)
(***************************************************************************)
Handles == {"tl", "t", "tr", "l", "r", "bl", "b", "br", "move"}

\* dragging.handle.includes(letter), for the handles of the editor.
Includes(handleName, letter) ==
    /\ handleName # "move"
    /\ \/ handleName = letter
       \/ Len(handleName) = 2 /\ letter \in {SubSeq(handleName, 1, 1), SubSeq(handleName, 2, 2)}

\* The box handleMouseMove passes to onCropChange, for the mouse at
\* (clientX, clientY).
HandleMouseMoveBox(drag, clientX, clientY, den, itemWidth, itemHeight) ==
    LET dx == clientX - drag.startX
        dy == clientY - drag.startY
        hasL == Includes(drag.handle, "l")
        hasR == Includes(drag.handle, "r")
        hasT == Includes(drag.handle, "t")
        hasB == Includes(drag.handle, "b")
        isMove == drag.handle = "move"
        w == den * drag.startCrop.w - (IF hasL THEN dx ELSE 0) + (IF hasR THEN dx ELSE 0)
        x == den * drag.startCrop.x + (IF hasL THEN dx ELSE 0) + (IF isMove THEN dx ELSE 0)
        h == den * drag.startCrop.h - (IF hasT THEN dy ELSE 0) + (IF hasB THEN dy ELSE 0)
        y == den * drag.startCrop.y + (IF hasT THEN dy ELSE 0) + (IF isMove THEN dy ELSE 0)
        newW == Max(MinCropSide * den, w)
        newH == Max(MinCropSide * den, h)
        newX == Max(0, Min(x, den * itemWidth - (IF hasL THEN newW ELSE w)))
        newY == Max(0, Min(y, den * itemHeight - (IF hasT THEN newH ELSE h)))
        finalW == IF newX + newW > den * itemWidth THEN den * itemWidth - newX ELSE newW
        finalH == IF newY + newH > den * itemHeight THEN den * itemHeight - newY ELSE newH
    IN  [x |-> RoundHalfUp(newX, den), y |-> RoundHalfUp(newY, den),
         w |-> RoundHalfUp(finalW, den), h |-> RoundHalfUp(finalH, den)]

\* updateItemCrop without the slice of the history.
UpdateItemCropNoSlice(item, newCrop, dimensions) ==
    [item EXCEPT !.width = dimensions.width, !.height = dimensions.height,
                 !.crop = newCrop, !.cropHistory = Append(item.cropHistory, newCrop),
                 !.cropHistoryIndex = item.cropHistoryIndex + 1, !.error = NoError]

\* updateItemCrop(item, newCrop, dimensions)
UpdateItemCropTo(item, newCrop, dimensions) ==
    LET kept == SubSeq(item.cropHistory, 1,
                       Min(item.cropHistoryIndex + 1, Len(item.cropHistory)))
        history == Append(kept, newCrop)
    IN  [item EXCEPT !.width = dimensions.width, !.height = dimensions.height,
                     !.crop = newCrop, !.cropHistory = history,
                     !.cropHistoryIndex = Len(history) - 1, !.error = NoError]

Dimensions(item) == [width |-> item.width, height |-> item.height]

\* { ...i, status: 'loaded', width, height, crop: initialCrop,
\*   cropHistory: [initialCrop], cropHistoryIndex: 0 }
LoadedItem(item, w, h) ==
    [item EXCEPT !.status = "loaded", !.width = w, !.height = h,
                 !.crop = FallbackCrop(w, h),
                 !.cropHistory = << FallbackCrop(w, h) >>, !.cropHistoryIndex = 0]

LoadingItem ==
    [status |-> "loading", isProcessing |-> FALSE, error |-> NoError,
     width |-> 0, height |-> 0, crop |-> ZeroBox,
     cropHistory |-> << >>, cropHistoryIndex |-> 0]

IsDragging == dragging # NoDragging

\* The variables the crop editor never touches.
editorFrame ==
    <<pc, width, height, imageData, scene, grayData, blurredData,
      thresholdIdx, allContours, boxes, n0, merges, passes, bestIdx,
      result, firstOut, r1, r2, margin, smAB, smBA,
      inputBoxes, edgeMask, ctxFailed, canvasWidth, canvasHeight,
      dataLength, pixelData, sharpenedData, blob, crop,
      isBatchProcessing, loopQueue, zip, downloaded>>

\* The zoom slider, disabled while the item is processing.
SetZoom ==
    /\ \E k \in 1 .. Len(items) :
           items[k].status = "loaded" /\ ~items[k].isProcessing
    /\ \E z \in {1, 2} : zoom' = z
    /\ UNCHANGED <<items, scale, dragging>>
    /\ UNCHANGED editorFrame

\* handleMouseDown on a handle of the editor of a loaded item that is not
\* processing; at most maxHistory - 1 drags are started on one history.
HandleMouseDown(handleNames, maxHistory) ==
    /\ ~IsDragging
    /\ \E k \in 1 .. Len(items), handleName \in handleNames :
           /\ items[k].status = "loaded" /\ ~items[k].isProcessing
           /\ Len(items[k].cropHistory) < maxHistory
           /\ dragging' = [handle |-> handleName, startX |-> BigDrag, startY |-> BigDrag,
                           startCrop |-> items[k].crop]
    /\ UNCHANGED <<items, scale, zoom>>
    /\ UNCHANGED editorFrame

\* handleMouseMove, and handleCropChange of App with the box it emits.
HandleMouseMove(offsets) ==
    /\ IsDragging
    /\ \E k \in 1 .. Len(items), ox \in offsets, oy \in offsets :
           /\ items[k].status = "loaded"
           /\ items[k].width # 0 /\ items[k].height # 0
           /\ items' = [items EXCEPT ![k] =
                  [items[k] EXCEPT
                      !.crop = HandleMouseMoveBox(dragging, dragging.startX + ox,
                                   dragging.startY + oy, scale * zoom,
                                   items[k].width, items[k].height),
                      !.error = NoError]]
    /\ UNCHANGED <<scale, zoom, dragging>>
    /\ UNCHANGED editorFrame

\* handleMouseUp, and handleCropChangeEnd of App.
HandleMouseUp ==
    /\ IsDragging
    /\ \E k \in 1 .. Len(items) :
           /\ items[k].status = "loaded"
           /\ items' = [items EXCEPT ![k] =
                  UpdateItemCropTo(items[k], items[k].crop, Dimensions(items[k]))]
    /\ dragging' = NoDragging
    /\ UNCHANGED <<scale, zoom>>
    /\ UNCHANGED editorFrame

(***************************************************************************)
(* One drag on a loaded item whose crop lies within the image (SpecDrag).  *)
(***************************************************************************)
DragSides(maxSide) == {maxSide - 4, maxSide}

\* Crops within a w x h image that touch or nearly touch its sides, and
\* one-pixel crops.
DragCrops(w, h) ==
    {b \in [x : 0 .. 1, y : 0 .. 1, w : {1, w - 2, w - 1, w}, h : {1, h - 1, h}] :
        b.x + b.w <= w /\ b.y + b.h <= h}

DragOffsets == (-MaxDrag .. MaxDrag) \cup {-BigDrag, BigDrag}

InitDrag ==
    /\ pc = "idle"
    /\ width \in DragSides(MaxDragW) /\ height \in DragSides(MaxDragH)
    /\ \E c \in DragCrops(width, height) :
           items = << [LoadedItem(LoadingItem, width, height) EXCEPT
                          !.crop = c, !.cropHistory = << c >>] >>
    /\ scale \in {1, 2} /\ zoom = 1 /\ dragging = NoDragging
    /\ NoImage /\ NoBoxes /\ NoGeom
    /\ ctxFailed = FALSE /\ NoEnhance
    /\ crop = Pending /\ isBatchProcessing = FALSE
    /\ loopQueue = NoLoop /\ zip = {} /\ downloaded = FALSE

DragMouseDown == HandleMouseDown(Handles, MaxDragHistory)
DragMouseMove == HandleMouseMove(DragOffsets)

NextDrag ==
    \/ SetZoom
    \/ DragMouseDown
    \/ DragMouseMove
    \/ HandleMouseUp

SpecDrag == InitDrag /\ [][NextDrag]_vars

\* The crop of the edited item, and the crop the drag started from.
EditedCrop == items[1].crop
StartCrop == dragging.startCrop

\* C22: every crop box handleMouseMove passes to onCropChange lies within
\* the image: x >= 0, y >= 0, w > 0, h > 0, x + w <= item.width and
\* y + h <= item.height, for every start crop within the image, every
\* handle and every drag offset.
DraggedBoxWithinImage ==
    IsDragging =>
        /\ EditedCrop.x >= 0 /\ EditedCrop.y >= 0
        /\ EditedCrop.w > 0 /\ EditedCrop.h > 0
        /\ EditedCrop.x + EditedCrop.w <= items[1].width
        /\ EditedCrop.y + EditedCrop.h <= items[1].height

\* C23: dragging a resize handle moves only the edges that handle names:
\* for 'r' the emitted x equals the start crop's x, for 'b' the emitted y
\* equals the start crop's y, and for 'l' and 't' the opposite edge x + w,
\* respectively y + h, equals that of the start crop, for every drag offset.
DragMovesNamedEdgesOnly ==
    IsDragging =>
        /\ (dragging.handle = "r") => EditedCrop.x = StartCrop.x
        /\ (dragging.handle = "b") => EditedCrop.y = StartCrop.y
        /\ (dragging.handle = "l") =>
               EditedCrop.x + EditedCrop.w = StartCrop.x + StartCrop.w
        /\ (dragging.handle = "t") =>
               EditedCrop.y + EditedCrop.h = StartCrop.y + StartCrop.h


(***************************************************************************)
(* The crop history of one item: load, auto-crop, drags, undo and redo     *)
(* (SpecHistory).                                                          *)
(***************************************************************************)
\* What predict returns in handleAutoCrop: a padded box or the full image.
AutoCropBoxes(w, h) == {[x |-> 1, y |-> 1, w |-> w - 2, h |-> h - 2], FallbackCrop(w, h)}

HistoryHandles == {"move", "r"}
HistoryOffsets == {-BigDrag, BigDrag}

InitHistory ==
    /\ pc = "idle"
    /\ width = MaxDragW /\ height = MaxDragH
    /\ items = << LoadingItem >>
    /\ NoCropper
    /\ NoImage /\ NoBoxes /\ NoGeom
    /\ ctxFailed = FALSE /\ NoEnhance
    /\ crop = Pending /\ isBatchProcessing = FALSE
    /\ loopQueue = NoLoop /\ zip = {} /\ downloaded = FALSE

\* handleFiles, the promise of loadImage settling for an item: the image's
\* size and the full-image crop, or status 'error'.  The editor is mounted
\* on a loaded item and takes its scale from the image element.
LoadImageSettled ==
    /\ \E k \in 1 .. Len(items), loaded \in BOOLEAN :
           /\ items[k].status = "loading"
           /\ items' = [items EXCEPT ![k] =
                  IF loaded THEN LoadedItem(items[k], width, height)
                  ELSE [items[k] EXCEPT !.status = "error"]]
           /\ scale' \in IF loaded THEN {1, 2} ELSE {scale}
    /\ UNCHANGED <<zoom, dragging>>
    /\ UNCHANGED editorFrame

\* handleAutoCrop after its awaits: updateItemCrop with the box of predict
\* and the image's size, or the error; isProcessing is cleared in both.
AutoCropSettled ==
    /\ \E k \in 1 .. Len(items) :
           /\ items[k].isProcessing
           /\ \/ \E b \in AutoCropBoxes(width, height) :
                     items' = [items EXCEPT ![k] =
                         [UpdateItemCropTo(items[k], b, [width |-> width, height |-> height])
                             EXCEPT !.isProcessing = FALSE]]
              \/ items' = [items EXCEPT ![k] =
                     [items[k] EXCEPT !.error = CropFailed, !.isProcessing = FALSE]]
    /\ UNCHANGED cropperVars
    /\ UNCHANGED editorFrame

\* handleAutoCrop up to its first await, on an item whose history has room.
HistoryAutoCropStart ==
    /\ \E k \in 1 .. Len(items) : Len(items[k].cropHistory) < MaxHistory
    /\ AutoCropStart

\* handleUndo, from the Undo button (disabled while the item is processing).
HandleUndo ==
    /\ \E k \in 1 .. Len(items) :
           /\ ~items[k].isProcessing
           /\ items[k].cropHistory # << >> /\ items[k].cropHistoryIndex > 0
           /\ LET newIndex == items[k].cropHistoryIndex - 1
              IN  items' = [items EXCEPT ![k] =
                      [items[k] EXCEPT !.crop = items[k].cropHistory[newIndex + 1],
                                       !.cropHistoryIndex = newIndex]]
    /\ UNCHANGED cropperVars
    /\ UNCHANGED editorFrame

\* handleRedo, from the Redo button (disabled while the item is processing).
HandleRedo ==
    /\ \E k \in 1 .. Len(items) :
           /\ ~items[k].isProcessing
           /\ items[k].cropHistory # << >>
           /\ items[k].cropHistoryIndex < Len(items[k].cropHistory) - 1
           /\ LET newIndex == items[k].cropHistoryIndex + 1
              IN  items' = [items EXCEPT ![k] =
                      [items[k] EXCEPT !.crop = items[k].cropHistory[newIndex + 1],
                                       !.cropHistoryIndex = newIndex]]
    /\ UNCHANGED cropperVars
    /\ UNCHANGED editorFrame

HistoryMouseDown == HandleMouseDown(HistoryHandles, MaxHistory)
HistoryMouseMove == HandleMouseMove(HistoryOffsets)

NextHistory ==
    \/ LoadImageSettled
    \/ HistoryAutoCropStart
    \/ AutoCropSettled
    \/ HistoryMouseDown
    \/ HistoryMouseMove
    \/ HandleMouseUp
    \/ HandleUndo
    \/ HandleRedo

SpecHistory == InitHistory /\ [][NextHistory]_vars

CanRedo(item) == item.cropHistoryIndex < Len(item.cropHistory) - 1

HistoryConsistent ==
    \A k \in 1 .. Len(items) :
        (items[k].status = "loaded") =>
            /\ items[k].cropHistory # << >>
            /\ 0 <= items[k].cropHistoryIndex
            /\ items[k].cropHistoryIndex <= Len(items[k].cropHistory) - 1
            /\ ~IsDragging =>
                   items[k].crop = items[k].cropHistory[items[k].cropHistoryIndex + 1]

\* A step that commits a crop (the end of a drag or an auto-crop) keeps the
\* entries up to the current index, puts the crop on top and leaves nothing
\* to redo.
CommitDiscardsRedo ==
    \A k \in 1 .. Len(items) :
        (/\ items[k].status = "loaded" /\ items'[k].status = "loaded"
         /\ items'[k].cropHistory # items[k].cropHistory) =>
            /\ items'[k].cropHistory =
                   Append(SubSeq(items[k].cropHistory, 1, items[k].cropHistoryIndex + 1),
                          items'[k].crop)
            /\ items'[k].cropHistoryIndex = Len(items'[k].cropHistory) - 1
            /\ ~CanRedo(items'[k])

\* C24: on a loaded item cropHistory is non-empty and
\* 0 <= cropHistoryIndex <= cropHistory.length - 1; whenever no drag is in
\* progress crop equals cropHistory[cropHistoryIndex]; and a new crop
\* committed after one or more undos discards the entries above the current
\* index, so that redo is then not possible.
CropHistoryInvariant == []HistoryConsistent /\ [][CommitDiscardsRedo]_vars

\* A crop dragged from the auto-crop box was committed after the auto-crop
\* entry had been undone: that entry is gone from the history, the dragged
\* crop is on top and nothing can be redone.
CommittedAfterUndo ==
    /\ ~IsDragging
    /\ items[1].status = "loaded"
    /\ Len(items[1].cropHistory) = 2
    /\ items[1].cropHistoryIndex = 1
    /\ items[1].cropHistory[1] = FallbackCrop(width, height)
    /\ items[1].cropHistory[2].x = 2 /\ items[1].cropHistory[2].y = 2
    /\ items[1].crop = items[1].cropHistory[2]
    /\ ~CanRedo(items[1])

====
